---------------------------- MODULE Spec2Model ----------------------------
(***************************************************************************)
(* A model of the wit-deps reconciliation engine: Manifest::lock and       *)
(* Entry::lock (crates/wit-deps/src/manifest.rs), the archive codec and    *)
(* the lock / lock_path entry points (crates/wit-deps/src/lib.rs), the     *)
(* lock model (lock.rs) and the local cache (cache.rs).                    *)
(*                                                                         *)
(* Option<T> is modelled as a set with at most one element: None is {}     *)
(* and Some(x) is {x}.                                                     *)
(***************************************************************************)
EXTENDS Integers, Sequences, FiniteSets, TLC

None == {}
Some(x) == {x}
IsSome(o) == o # {}
Get(o) == CHOOSE x \in o : TRUE

EmptyMap == [x \in {} |-> {}]

(***************************************************************************)
(* Strings.  TLC cannot look inside a string, so the few operations the    *)
(* code performs on characters are computed over a table that spells the   *)
(* strings of the model.                                                   *)
(***************************************************************************)
Chars(s) ==
    CASE s = "a" -> <<"a">>
      [] s = "b" -> <<"b">>
      [] s = "c" -> <<"c">>
      [] s = "d" -> <<"d">>
      [] s = "s" -> <<"s">>
      [] s = "n:s" -> <<"n", ":", "s">>
      [] s = "n_s" -> <<"n", "_", "s">>

Spelled == {"a", "b", "c", "d", "s", "n:s", "n_s"}

Str(cs) == CHOOSE s \in Spelled : Chars(s) = cs

\* id.replace(":", "_")
Sanitize(id) ==
    Str([i \in DOMAIN Chars(id) |-> IF Chars(id)[i] = ":" THEN "_" ELSE Chars(id)[i]])

\* Path::extension of a file name
Ext(name) ==
    CASE name \in {"a.wit", "b.wit", "c.wit", "d.wit", "s.wit", "n.wit", "t.wit"} -> "wit"
      [] name \in {"U.WIT"} -> "WIT"
      [] name \in {"readme.md"} -> "md"
      [] OTHER -> ""

Lower(s) == IF s = "WIT" THEN "wit" ELSE s

is_wit(name) == Lower(Ext(name)) = "wit"

\* The byte order of the file names (the order of a BTreeSet<OsString>)
NameOrder == <<"U.WIT", "a.wit", "b.wit", "c.wit", "d.wit", "n.wit", "readme.md", "s.wit", "t.wit">>

(***************************************************************************)
(* Byte streams.  A stream is the list of tar entries it carries, its      *)
(* framing (a gzip-compressed tarball, or the plain tar that `tar` packs)  *)
(* and whether it is complete; a truncated stream delivers its entries and *)
(* then fails.                                                             *)
(***************************************************************************)
TarEntry(p, d) == [path |-> p, data |-> d]
Bytes(f, es, eof) == [fmt |-> f, entries |-> es, eof |-> eof]
Gz(es) == Bytes("gz", es, TRUE)

\* Digest of a byte stream: both hash functions over the same bytes,
\* modelled as collision-free.
DigestOf(bytes) == [sha256 |-> <<"sha256", bytes>>, sha512 |-> <<"sha512", bytes>>]

(***************************************************************************)
(* The file system under the deps directory: a directory name maps to      *)
(* None (no such directory) or Some(set of files), a file being a name     *)
(* and its content.                                                        *)
(***************************************************************************)
File(n, d) == [name |-> n, data |-> d]

\* remove_dir_all that leaves the directory in place
remove_dir_all_kept(fs, d) == fs

remove_dir_all(fs, d) == [fs EXCEPT ![d] = None]

recreate_dir(fs, d) == [fs EXCEPT ![d] = Some({})]

\* async_tar Entry::unpack / fs::copy of one file into an existing directory
WriteFile(fs, d, n, data) ==
    [fs EXCEPT ![d] = Some({f \in Get(fs[d]) : f.name # n} \cup {File(n, data)})]

\* A read_wits that yields every file name
read_wits_all(files) == {f.name : f \in files}

\* read_wits: the names of the WIT files directly in a directory
read_wits(files) == {f.name : f \in {g \in files : is_wit(g.name)}}

\* tar: the deterministic archive of the WIT files of a directory, sorted by name
tar(files) ==
    LET names == read_wits(files)
        sorted == SelectSeq(NameOrder, LAMBDA n : n \in names)
        dataOf(n) == (CHOOSE f \in files : f.name = n).data
    IN Bytes("tar", [i \in DOMAIN sorted |-> TarEntry(<<"wit", sorted[i]>>, dataOf(sorted[i]))], TRUE)

\* LockEntry::digest: None stands for the NotFound error of a missing directory
digest(fs, d) == IF IsSome(fs[d]) THEN Some(DigestOf(tar(Get(fs[d])))) ELSE None


(***************************************************************************)
(* The lock model (lock.rs)                                                *)
(***************************************************************************)
SourceUrl(url, subdir) == [kind |-> "Url", url |-> url, subdir |-> subdir]
SourcePath(path) == [kind |-> "Path", path |-> path]

\* LockEntry::new
LockEntry(source, dg, deps) == [source |-> source, digest |-> dg, deps |-> deps]

\* LockEntry::from_transitive_path: None stands for the digest error
from_transitive_path(fs, d) ==
    IF IsSome(digest(fs, d)) THEN Some(LockEntry(None, Get(digest(fs, d)), {})) ELSE None

\* lock_deps: `paths` maps each identifier to its directory; the result is
\* None when the digest of any of them fails
lock_deps(fs, paths) ==
    IF \A id \in DOMAIN paths : IsSome(from_transitive_path(fs, paths[id]))
    THEN Some([id \in DOMAIN paths |-> Get(from_transitive_path(fs, paths[id]))])
    ELSE None

\* A from_url that stores the default subdirectory
from_url_default_subdir(fs, url, out, deps, subdir) ==
    LockEntry(Some(SourceUrl(url, "wit")), Get(digest(fs, out)), deps)

\* LockEntry::from_url: the digest is that of the unpacked directory
from_url(fs, url, out, deps, subdir) ==
    LockEntry(Some(SourceUrl(url, subdir)), Get(digest(fs, out)), deps)

(***************************************************************************)
(* The archive codec (lib.rs)                                              *)
(***************************************************************************)
\* The result of unpacking or copying: the file system, the transitive
\* identifiers materialized (each at base.join(id)), the directories
\* removed, recreated or written, and whether the operation succeeded.
IoState(fs, deps, touched, ok) == [fs |-> fs, deps |-> deps, touched |-> touched, ok |-> ok]

\* untar's entry filter without the skip_deps test
untar_entry_unfiltered(st, e, dst, skip_deps, subdir) ==
    LET p == e.path
        n == Len(p)
        isTop == \/ n = 2 /\ p[1] = subdir
                 \/ n = 3 /\ p[2] = subdir
        isDep == \/ n = 4 /\ p[1] = subdir /\ p[2] = "deps"
                 \/ n >= 5 /\ p[2] = subdir /\ p[3] = "deps"
        id == IF n = 4 THEN p[3] ELSE p[4]
        name == IF n = 4 THEN p[4] ELSE p[5]
    IN IF isTop /\ is_wit(p[n])
       THEN [st EXCEPT !.fs = WriteFile(st.fs, dst, p[n], e.data),
                       !.touched = @ \cup {dst}]
       ELSE IF isDep /\ is_wit(name)
       THEN [st EXCEPT !.fs = WriteFile(recreate_dir(st.fs, id), id, name, e.data),
                       !.deps = @ \cup {id},
                       !.touched = @ \cup {id}]
       ELSE st

\* An entry filter that follows a `deps` layer at any depth
untar_entry_nested(st, e, dst, skip_deps, subdir) ==
    LET p == e.path
        n == Len(p)
        isTop == \/ n = 2 /\ p[1] = subdir
                 \/ n = 3 /\ p[2] = subdir
        isDep == n >= 4 /\ p[n - 2] = "deps"
        id == p[n - 1]
        name == p[n]
    IN IF isTop /\ is_wit(p[n])
       THEN [st EXCEPT !.fs = WriteFile(st.fs, dst, p[n], e.data),
                       !.touched = @ \cup {dst}]
       ELSE IF isDep /\ id \notin skip_deps /\ is_wit(name)
       THEN [st EXCEPT !.fs = WriteFile(recreate_dir(st.fs, id), id, name, e.data),
                       !.deps = @ \cup {id},
                       !.touched = @ \cup {id}]
       ELSE st

\* One archive entry of untar's try_filter_map
untar_entry(st, e, dst, skip_deps, subdir) ==
    LET p == e.path
        n == Len(p)
        isTop == \/ n = 2 /\ p[1] = subdir
                 \/ n = 3 /\ p[2] = subdir
        isDep == \/ n = 4 /\ p[1] = subdir /\ p[2] = "deps"
                 \/ n >= 5 /\ p[2] = subdir /\ p[3] = "deps"
        id == IF n = 4 THEN p[3] ELSE p[4]
        name == IF n = 4 THEN p[4] ELSE p[5]
    IN IF isTop /\ is_wit(p[n])
       THEN [st EXCEPT !.fs = WriteFile(st.fs, dst, p[n], e.data),
                       !.touched = @ \cup {dst}]
       ELSE IF isDep /\ id \notin skip_deps /\ is_wit(name)
       THEN [st EXCEPT !.fs = WriteFile(recreate_dir(st.fs, id), id, name, e.data),
                       !.deps = @ \cup {id},
                       !.touched = @ \cup {id}]
       ELSE st

RECURSIVE untar_entries(_, _, _, _, _, _)
untar_entries(st, es, i, dst, skip_deps, subdir) ==
    IF i > Len(es) THEN st
    ELSE untar_entries(untar_entry(st, es[i], dst, skip_deps, subdir),
                       es, i + 1, dst, skip_deps, subdir)

\* untar of a gzip stream into dst; a stream that is not complete gzip
\* fails after the entries it delivered
untar(fs, bytes, dst, skip_deps, subdir) ==
    LET st0 == IoState(recreate_dir(fs, dst), {}, {dst}, TRUE)
    IN IF bytes.fmt # "gz" THEN [st0 EXCEPT !.ok = FALSE]
       ELSE [untar_entries(st0, bytes.entries, 1, dst, skip_deps, subdir)
                EXCEPT !.ok = bytes.eof]

\* An install_wits that copies every file of the source directory
install_wits_all(fs, files, dst) == [fs EXCEPT ![dst] = Some(files)]

\* install_wits: recreate dst and copy the WIT files of a source directory
install_wits(fs, files, dst) ==
    [fs EXCEPT ![dst] = Some({f \in files : is_wit(f.name)})]

\* copy_wits: `src` is None (no such directory) or Some([wits, deps]), deps
\* mapping each subdirectory of src/deps to its files
copy_wits(fs, src, dst, skip_deps) ==
    IF ~IsSome(src) THEN IoState(recreate_dir(fs, dst), {}, {dst}, FALSE)
    ELSE LET tree == Get(src)
             ids == DOMAIN tree.deps \ skip_deps
             fs1 == install_wits(fs, tree.wits, dst)
         IN IoState([d \in DOMAIN fs1 |-> IF d \in ids THEN Some({f \in tree.deps[d] : is_wit(f.name)})
                                          ELSE fs1[d]],
                    ids, {dst} \cup ids, TRUE)

(***************************************************************************)
(* The manifest model (manifest.rs) and the local cache (cache.rs)         *)
(***************************************************************************)
Url(scheme, host, path) == [scheme |-> scheme, host |-> host, path |-> path]

EntryUrl(url, sha256, sha512, subdir) ==
    [kind |-> "Url", url |-> url, sha256 |-> sha256, sha512 |-> sha512, subdir |-> subdir]
EntryPath(path) == [kind |-> "Path", path |-> path]

\* impl From<Url> for Entry: no pins, subdir `wit`
FromUrl(url) == EntryUrl(url, None, None, "wit")

\* Local::path: the host, then PathBuf::push of each segment of the URL
\* path; the push of an empty segment adds no component
LocalPath(url) == <<url.host>> \o SelectSeq(url.path, LAMBDA seg : seg # "")

\* source_matches: an absent pin is satisfied
source_matches(dg, sha256, sha512) ==
    /\ (IsSome(sha256) => Get(sha256) = dg.sha256)
    /\ (IsSome(sha512) => Get(sha512) = dg.sha512)

(***************************************************************************)
(* Encoding of the lock file (the serde attributes of lock.rs): a field    *)
(* of the TOML table is None when the table does not hold it.              *)
(***************************************************************************)
EncodeEntry(e) ==
    LET src == e.source
        isUrl == IsSome(src) /\ Get(src).kind = "Url"
        isPath == IsSome(src) /\ Get(src).kind = "Path"
    IN [url |-> IF isUrl THEN Some(Get(src).url) ELSE None,
        subdir |-> IF isUrl /\ Get(src).subdir # "wit" THEN Some(Get(src).subdir) ELSE None,
        path |-> IF isPath THEN Some(Get(src).path) ELSE None,
        sha256 |-> e.digest.sha256,
        sha512 |-> e.digest.sha512,
        deps |-> IF e.deps = {} THEN None ELSE Some(e.deps)]

\* A decoder without the default of subdir
DecodeEntry_without_default(t) ==
    LockEntry(IF IsSome(t.url)
              THEN Some(SourceUrl(Get(t.url), IF IsSome(t.subdir) THEN Get(t.subdir) ELSE ""))
              ELSE IF IsSome(t.path) THEN Some(SourcePath(Get(t.path)))
              ELSE None,
              [sha256 |-> t.sha256, sha512 |-> t.sha512],
              IF IsSome(t.deps) THEN Get(t.deps) ELSE {})

DecodeEntry(t) ==
    LockEntry(IF IsSome(t.url)
              THEN Some(SourceUrl(Get(t.url), IF IsSome(t.subdir) THEN Get(t.subdir) ELSE "wit"))
              ELSE IF IsSome(t.path) THEN Some(SourcePath(Get(t.path)))
              ELSE None,
              [sha256 |-> t.sha256, sha512 |-> t.sha512],
              IF IsSome(t.deps) THEN Get(t.deps) ELSE {})

EncodeLock(lock) == [id \in DOMAIN lock |-> EncodeEntry(lock[id])]
DecodeLock(text) == [id \in DOMAIN text |-> DecodeEntry(text[id])]

(***************************************************************************)
(* The world of the model: the server, the local path sources, and the     *)
(* manifests the user may write.                                           *)
(***************************************************************************)
UrlA == Url("https", "h", <<"a.tgz">>)
UrlB == Url("https", "h", <<"b.tgz">>)
UrlC == Url("https", "h", <<"c.tgz">>)
UrlD == Url("http", "h", <<"r", "d.tgz">>)
UrlS == Url("https", "h", <<"s.tgz">>)
\* URLs of other schemes with the host and the path of UrlA
UrlFile == Url("file", "h", <<"a.tgz">>)
UrlFtp == Url("ftp", "h", <<"a.tgz">>)
\* the URL of an archive that keeps its WIT files under `api` as well
UrlE == Url("https", "h", <<"e.tgz">>)
\* the URLs of archives whose transitive dependency `s` has a `deps` layer
\* of its own, without and with a leading directory
UrlN == Url("https", "h", <<"n.tgz">>)
UrlP == Url("https", "h", <<"p.tgz">>)
Urls == {UrlA, UrlB, UrlC, UrlD, UrlS, UrlFile, UrlFtp, UrlE, UrlN, UrlP}

\* `a` carries the transitive dependency `s`
ArcA == Gz(<<TarEntry(<<"wit", "a.wit">>, 1), TarEntry(<<"wit", "deps", "s", "s.wit">>, 1)>>)
\* `b` (below a GitHub-style prefix) carries `s` with other contents
ArcB == Gz(<<TarEntry(<<"pfx", "wit", "b.wit">>, 1),
             TarEntry(<<"pfx", "wit", "deps", "s", "s.wit">>, 2)>>)
\* `c` carries a transitive dependency whose identifier holds a colon
ArcC == Gz(<<TarEntry(<<"wit", "c.wit">>, 1), TarEntry(<<"wit", "deps", "n:s", "n.wit">>, 1)>>)
ArcD == Gz(<<TarEntry(<<"wit", "d.wit">>, 1), TarEntry(<<"wit", "readme.md">>, 1)>>)
\* what UrlD served before its archive was published again
ArcDOld == Gz(<<TarEntry(<<"wit", "d.wit">>, 0), TarEntry(<<"wit", "deps", "s", "s.wit">>, 1)>>)
ArcE == Gz(<<TarEntry(<<"wit", "a.wit">>, 1), TarEntry(<<"wit", "deps", "d", "d.wit">>, 1),
             TarEntry(<<"api", "b.wit">>, 2), TarEntry(<<"api", "deps", "s", "s.wit">>, 2)>>)
ArcN == Gz(<<TarEntry(<<"wit", "a.wit">>, 1), TarEntry(<<"wit", "deps", "s", "s.wit">>, 1),
             TarEntry(<<"wit", "deps", "s", "deps", "d", "d.wit">>, 1)>>)
ArcP == Gz(<<TarEntry(<<"pfx", "wit", "a.wit">>, 1),
             TarEntry(<<"pfx", "wit", "deps", "s", "s.wit">>, 1),
             TarEntry(<<"pfx", "wit", "deps", "s", "deps", "d", "d.wit">>, 1)>>)
ArcS == Gz(<<TarEntry(<<"wit", "s.wit">>, 3)>>)

\* The response to GET url: None is a failed request
Server(url) ==
    CASE url = UrlA -> Some(ArcA)
      [] url = UrlB -> Some(ArcB)
      [] url = UrlC -> Some(ArcC)
      [] url = UrlD -> Some(ArcD)
      [] url = UrlS -> Some(ArcS)
      [] url = UrlE -> Some(ArcE)
      [] url = UrlN -> Some(ArcN)
      [] url = UrlP -> Some(ArcP)
      [] OTHER -> None

\* The directory a Path entry resolves to: None when it does not exist
PathSrc(path) ==
    CASE path = "./local-b" ->
            Some([wits |-> {File("b.wit", 1), File("readme.md", 0)},
                  deps |-> [id \in {"s"} |-> {File("s.wit", 1)}]])
      [] path = "./local-s" ->
            Some([wits |-> {File("s.wit", 3)}, deps |-> EmptyMap])
      [] OTHER -> None

DirNames == Spelled
CachePaths == {LocalPath(u) : u \in Urls}

PinD == DigestOf(ArcD)
PinDOld == DigestOf(ArcDOld)
PinDUnpacked == DigestOf(tar({File("d.wit", 1)}))

EntryD(p256, p512) == EntryUrl(UrlD, Some(p256.sha256), Some(p512.sha512), "wit")

PinPairs ==
    {<<PinD, PinD>>, <<PinDOld, PinD>>, <<PinD, PinDOld>>, <<PinDOld, PinDOld>>,
     <<PinDUnpacked, PinDUnpacked>>}

Manifests ==
    {EmptyMap,
     [id \in {"a"} |-> FromUrl(UrlA)],
     [id \in {"c"} |-> FromUrl(UrlC)],
     [id \in {"a", "s"} |-> IF id = "a" THEN FromUrl(UrlA) ELSE EntryPath("./local-s")],
     [id \in {"a", "b", "s"} |-> IF id = "a" THEN FromUrl(UrlA)
                                 ELSE IF id = "b" THEN EntryPath("./local-b")
                                 ELSE FromUrl(UrlS)],
     [id \in {"a", "b"} |-> IF id = "a" THEN FromUrl(UrlA) ELSE FromUrl(UrlB)],
     [id \in {"a", "b"} |-> IF id = "a" THEN FromUrl(UrlA) ELSE EntryPath("./local-b")],
     [id \in {"b"} |-> EntryPath("./missing")],
     [id \in {"a"} |-> FromUrl(UrlFile)],
     [id \in {"a"} |-> FromUrl(UrlFtp)],
     [id \in {"a", "d"} |-> IF id = "a" THEN FromUrl(UrlA) ELSE EntryD(PinD, PinD)]}
    \cup {[id \in {"d"} |-> EntryD(pp[1], pp[2])] : pp \in PinPairs}

\* The per-user cache directory is shared with other projects and earlier
\* runs: it starts empty, or holding what UrlD served earlier
Caches ==
    {[p \in CachePaths |-> None],
     [p \in CachePaths |-> IF p = LocalPath(UrlD) THEN Some(ArcDOld) ELSE None]}

(***************************************************************************)
(* The reconciler (manifest.rs): the per-entry decision and the fold       *)
(***************************************************************************)
Result(entry, deps) == [entry |-> entry, deps |-> deps]

\* A reuse arm that does not need the directories of the transitive
\* dependencies
fast_path_without_siblings(fs, me, out, l) ==
    IF ~IsSome(l) THEN None
    ELSE LET le == Get(l)
             found == {id \in le.deps : IsSome(digest(fs, Sanitize(id)))}
             tdeps == lock_deps(fs, [id \in found |-> Sanitize(id)])
             dg == digest(fs, out)
         IN IF IsSome(dg) /\ IsSome(le.source) /\ Get(dg) = le.digest
            THEN LET src == Get(le.source)
                 IN IF /\ me.kind = "Url" /\ src.kind = "Url"
                       /\ me.url = src.url /\ me.subdir = src.subdir
                    THEN Some(Result(LockEntry(Some(SourceUrl(me.url, me.subdir)), Get(dg),
                                               le.deps), Get(tdeps)))
                    ELSE IF me.kind = "Path" /\ src.kind = "Path" /\ me.path = src.path
                    THEN Some(Result(LockEntry(Some(SourcePath(me.path)), Get(dg),
                                               le.deps), Get(tdeps)))
                    ELSE None
            ELSE None

\* Entry::lock, the reuse arm: Some(result) when the entry is reused without
\* a rebuild, None when it falls through to the rebuild
fast_path(fs, me, out, l) ==
    IF ~IsSome(l) THEN None
    ELSE LET le == Get(l)
             tdeps == IF le.deps = {} THEN Some(EmptyMap)
                      ELSE lock_deps(fs, [id \in le.deps |-> Sanitize(id)])
             dg == digest(fs, out)
         IN IF IsSome(dg) /\ IsSome(le.source) /\ IsSome(tdeps) /\ Get(dg) = le.digest
            THEN LET src == Get(le.source)
                 IN IF /\ me.kind = "Url" /\ src.kind = "Url"
                       /\ me.url = src.url /\ me.subdir = src.subdir
                    THEN Some(Result(LockEntry(Some(SourceUrl(me.url, me.subdir)), Get(dg),
                                               DOMAIN Get(tdeps)), Get(tdeps)))
                    ELSE IF me.kind = "Path" /\ src.kind = "Path" /\ me.path = src.path
                    THEN Some(Result(LockEntry(Some(SourcePath(me.path)), Get(dg),
                                               DOMAIN Get(tdeps)), Get(tdeps)))
                    ELSE None
            ELSE None

Error(kind, id) == [kind |-> kind, id |-> id]

\* The fold that forgets the transitive results of an entry
fold_direct_only(acc, id, entry, tdeps, dbg) ==
    [lock |-> IF id \in DOMAIN acc THEN acc
              ELSE [k \in DOMAIN acc \cup {id} |-> IF k = id THEN entry ELSE acc[k]],
     errors |-> {}]

\* Manifest::lock, the body of try_fold for one result.  The transitive
\* results are visited in the arbitrary order of a HashMap, so each failing
\* one may be the error that ends the run; debug_assert! panics in a build
\* with debug assertions only.
fold(acc, id, entry, tdeps, dbg) ==
    LET acc1 == IF id \in DOMAIN acc THEN acc
                ELSE [k \in DOMAIN acc \cup {id} |-> IF k = id THEN entry ELSE acc[k]]
        occupied == DOMAIN tdeps \cap DOMAIN acc1
        panics == IF dbg THEN {t \in occupied : IsSome(acc1[t].source)} ELSE {}
        conflicts == {t \in occupied \ panics : acc1[t].digest # tdeps[t].digest}
    IN [lock |-> [k \in DOMAIN acc1 \cup DOMAIN tdeps |->
                    IF k \in DOMAIN acc1 THEN acc1[k] ELSE tdeps[k]],
        errors |-> {Error("panic", t) : t \in panics}
                   \cup {Error("conflict", t) : t \in conflicts}]

(***************************************************************************)
(* State                                                                   *)
(***************************************************************************)
VARIABLES
    manifest,   \* the manifest file: identifier -> manifest entry
    lockFile,   \* the lock file: None, or Some(encoded lock)
    deps,       \* the deps directory: directory name -> None | Some(files)
    cache,      \* the cache directory: cache path -> None | Some(bytes)
    debug,      \* whether the build has debug assertions
    runs,       \* the number of runs of lock_path so far
    edits,      \* the number of edits of the manifest so far
    pc,         \* where the current run of lock_path stands
    run,        \* the locals of the current run
    log,        \* what the current run did to the outside
    last,       \* the outcome of the last run that ended
    peer,       \* the cache paths another run holds a write handle for
    call        \* a call of a library function on its own: arguments and result

vars == <<manifest, lockFile, deps, cache, debug, runs, edits, pc, run, log, last, peer, call>>

MaxRuns == 3
MaxEdits == 1

BlankRun ==
    [old |-> None, acc |-> EmptyMap, todo |-> {}, cur |-> None, sink |-> None,
     fetched |-> None, res |-> None, rerun |-> FALSE, deps0 |-> EmptyMap,
     lockFile0 |-> None, mode |-> "lock", cache0 |-> EmptyMap]

BlankLog ==
    [reused |-> {}, touched |-> {}, net |-> {}, cget |-> {}, cins |-> {}, sunk |-> {},
     cfail |-> {}]

NoRun ==
    [n |-> 0, ok |-> FALSE, err |-> None, manifest |-> EmptyMap, old |-> None, lock |-> None,
     ret |-> None, wrote |-> FALSE, rerun |-> FALSE, deps0 |-> EmptyMap, deps |-> EmptyMap,
     lockFile0 |-> None, lockFile |-> None, log |-> BlankLog, mode |-> "lock",
     cache0 |-> EmptyMap]

\* No library function is called on its own
NoCall == [op |-> "none"]

Init ==
    /\ manifest \in Manifests
    /\ lockFile = None
    /\ deps = [d \in DirNames |-> None]
    /\ cache \in Caches
    /\ debug \in BOOLEAN
    /\ runs = 0
    /\ edits = 0
    /\ pc = "idle"
    /\ run = BlankRun
    /\ log = BlankLog
    /\ last = NoRun
    /\ peer = {}
    /\ call = NoCall

\* The identifiers pinned in the manifest (the skip set)
Pinned == DOMAIN manifest

Cur == Get(run.cur)
CurEntry == manifest[Cur]
\* deps.join(&id)
Out(id) == id

Touch(dirs) == {[dir |-> d, by |-> Cur] : d \in dirs}

\* A failing run that writes the entries folded so far to the lock file
Abort_writes_partial(err, fs, ch, lg) ==
    /\ pc' = "idle"
    /\ deps' = fs
    /\ cache' = ch
    /\ runs' = runs + 1
    /\ lockFile' = Some(EncodeLock(run.acc))
    /\ last' = [n |-> runs + 1, ok |-> FALSE, err |-> Some(err), manifest |-> manifest,
                old |-> run.old, lock |-> None, ret |-> None, wrote |-> FALSE,
                rerun |-> run.rerun, deps0 |-> run.deps0, deps |-> fs,
                lockFile0 |-> run.lockFile0, lockFile |-> Some(EncodeLock(run.acc)), log |-> lg,
                mode |-> run.mode, cache0 |-> run.cache0]
    /\ run' = BlankRun
    /\ log' = BlankLog
    /\ UNCHANGED <<manifest, debug, edits, peer, call>>

\* A run that ends in an error: lock and lock_path return the error
Abort(err, fs, ch, lg) ==
    /\ pc' = "idle"
    /\ deps' = fs
    /\ cache' = ch
    /\ runs' = runs + 1
    /\ last' = [n |-> runs + 1, ok |-> FALSE, err |-> Some(err), manifest |-> manifest,
                old |-> run.old, lock |-> None, ret |-> None, wrote |-> FALSE,
                rerun |-> run.rerun, deps0 |-> run.deps0, deps |-> fs,
                lockFile0 |-> run.lockFile0, lockFile |-> lockFile, log |-> lg,
                mode |-> run.mode, cache0 |-> run.cache0]
    /\ run' = BlankRun
    /\ log' = BlankLog
    /\ UNCHANGED <<manifest, lockFile, debug, edits, peer, call>>

\* The user edits the manifest between two runs
EditManifest(m) ==
    /\ pc = "idle"
    /\ 0 < runs /\ runs < MaxRuns
    /\ edits < MaxEdits
    /\ m # manifest
    /\ manifest' = m
    /\ edits' = edits + 1
    /\ UNCHANGED <<lockFile, deps, cache, debug, runs, pc, run, log, last, peer, call>>

\* A run whose fold starts from the previous lock
Begin_seeds_old_lock ==
    /\ pc = "idle"
    /\ runs < MaxRuns
    /\ pc' = "next"
    /\ run' = [BlankRun EXCEPT
                 !.old = IF IsSome(lockFile) THEN Some(DecodeLock(Get(lockFile))) ELSE None,
                 !.acc = IF IsSome(lockFile) THEN DecodeLock(Get(lockFile)) ELSE EmptyMap,
                 !.todo = DOMAIN manifest,
                 !.deps0 = deps,
                 !.lockFile0 = lockFile,
                 !.cache0 = cache,
                 !.rerun = /\ last.ok
                           /\ last.manifest = manifest
                           /\ last.deps = deps
                           /\ last.lockFile = lockFile]
    /\ log' = BlankLog
    /\ UNCHANGED <<manifest, lockFile, deps, cache, debug, runs, edits, last, peer, call>>

\* lock_path and lock up to the call of Manifest::lock: read the manifest
\* and the lock file, decode them
Begin ==
    /\ pc = "idle"
    /\ runs < MaxRuns
    /\ pc' = "next"
    /\ run' = [BlankRun EXCEPT
                 !.old = IF IsSome(lockFile) THEN Some(DecodeLock(Get(lockFile))) ELSE None,
                 !.todo = DOMAIN manifest,
                 !.deps0 = deps,
                 !.lockFile0 = lockFile,
                 !.cache0 = cache,
                 !.rerun = /\ last.ok
                           /\ last.manifest = manifest
                           /\ last.deps = deps
                           /\ last.lockFile = lockFile]
    /\ log' = BlankLog
    /\ UNCHANGED <<manifest, lockFile, deps, cache, debug, runs, edits, last, peer, call>>

\* Manifest::lock takes the next entry (in the arbitrary order of a HashMap)
\* and Entry::lock decides between reuse and rebuild
NextEntry(id) ==
    /\ pc = "next"
    /\ id \in run.todo
    /\ LET prev == IF IsSome(run.old) /\ id \in DOMAIN Get(run.old)
                   THEN Some(Get(run.old)[id]) ELSE None
           fast == fast_path(deps, manifest[id], Out(id), prev)
       IN /\ run' = [run EXCEPT !.cur = Some(id), !.res = fast]
          /\ pc' = IF IsSome(fast) THEN "fold"
                   ELSE IF manifest[id].kind = "Path" THEN "path" ELSE "cache"
          /\ log' = IF IsSome(fast) THEN [log EXCEPT !.reused = @ \cup {id}] ELSE log
    /\ UNCHANGED <<manifest, lockFile, deps, cache, debug, runs, edits, last, peer, call>>

\* Entry::lock, the rebuild of a Path entry
RebuildPath ==
    /\ pc = "path"
    /\ LET st == copy_wits(deps, PathSrc(CurEntry.path), Out(Cur), Pinned)
           lg == [log EXCEPT !.touched = @ \cup Touch(st.touched)]
           tdeps == Get(lock_deps(st.fs, [id \in st.deps |-> id]))
       IN IF ~st.ok THEN Abort(Error("copy", Cur), st.fs, cache, lg)
          ELSE /\ deps' = st.fs
               /\ log' = lg
               /\ run' = [run EXCEPT !.res = Some(Result(
                              LockEntry(Some(SourcePath(CurEntry.path)),
                                        Get(digest(st.fs, Out(Cur))), DOMAIN tdeps), tdeps))]
               /\ pc' = "fold"
               /\ UNCHANGED <<manifest, lockFile, cache, debug, runs, edits, last, peer, call>>

\* The file Local::insert creates (create_new) before any chunk is written
EmptyFile == Bytes("gz", <<>>, FALSE)

\* A write-only wrapper that passes get through to the cache
cache_get_through(ch, p, mode) == ch[p]

\* Cache::get: Local::get opens the file of the url; the write-only wrapper
\* of the update workflow answers None without looking
cache_get(ch, p, mode) == IF mode = "update" THEN None ELSE ch[p]

\* An insert that opens the file whether or not it exists, and truncates it
cache_insert_truncating(ch, p) ==
    [cache |-> [ch EXCEPT ![p] = Some(EmptyFile)], sink |-> Some(p)]

\* Local::insert: create_new, so a file that exists is never opened
cache_insert(ch, p) ==
    IF IsSome(ch[p]) THEN [cache |-> ch, sink |-> None]
    ELSE [cache |-> [ch EXCEPT ![p] = Some(EmptyFile)], sink |-> Some(p)]

\* Entry::lock, the rebuild of a Url entry up to the network fetch: the
\* cache lookup, the unpack of a cache hit and the cache insert.  getErr and
\* insErr say whether cache.get and cache.insert end in an I/O error.
CacheLookupWith(getErr, insErr) ==
    /\ pc = "cache"
    /\ LET e == CurEntry
           p == LocalPath(e.url)
           hit == IF getErr THEN None ELSE cache_get(cache, p, run.mode)
           st == untar(deps, Get(hit), Out(Cur), Pinned, e.subdir)
           accepted == IsSome(hit) /\ st.ok
                       /\ source_matches(DigestOf(Get(hit)), e.sha256, e.sha512)
           removed == [d \in DOMAIN st.fs |->
                          IF d = Out(Cur) \/ d \in st.deps THEN None ELSE st.fs[d]]
           fs1 == IF ~IsSome(hit) THEN deps ELSE IF st.ok THEN removed ELSE st.fs
           lg == [log EXCEPT !.cget = @ \cup (IF run.mode = "update" THEN {} ELSE {e.url}),
                             !.touched = @ \cup (IF IsSome(hit) THEN Touch(st.touched) ELSE {})]
           tdeps == Get(lock_deps(st.fs, [id \in st.deps |-> id]))
           ins == IF insErr THEN [cache |-> cache, sink |-> None] ELSE cache_insert(cache, p)
       IN IF accepted
          THEN /\ deps' = st.fs
               /\ log' = lg
               /\ run' = [run EXCEPT !.res = Some(Result(
                              from_url(st.fs, e.url, Out(Cur), DOMAIN tdeps, e.subdir), tdeps))]
               /\ pc' = "fold"
               /\ UNCHANGED cache
          ELSE /\ deps' = fs1
               /\ log' = [lg EXCEPT !.cins = @ \cup {e.url},
                                    !.sunk = @ \cup (IF IsSome(ins.sink) THEN {e.url} ELSE {}),
                                    !.cfail = @ \cup (IF getErr \/ insErr THEN {e.url} ELSE {})]
               /\ cache' = ins.cache
               /\ run' = [run EXCEPT !.sink = ins.sink]
               /\ pc' = "fetch"
    /\ UNCHANGED <<manifest, lockFile, debug, runs, edits, last, peer, call>>

CacheLookup == CacheLookupWith(FALSE, FALSE)

\* A tee that keeps the sink after a failed write
RECURSIVE tee_keeps_sink(_, _, _, _, _, _)
tee_keeps_sink(chunks, i, F, sink, file, passed) ==
    IF i > Len(chunks) THEN [file |-> file, passed |-> passed, sink |-> sink]
    ELSE IF sink /\ i \in F
    THEN tee_keeps_sink(chunks, i + 1, F, TRUE, file, Append(passed, chunks[i]))
    ELSE IF sink
    THEN tee_keeps_sink(chunks, i + 1, F, TRUE, Append(file, chunks[i]),
                        Append(passed, chunks[i]))
    ELSE tee_keeps_sink(chunks, i + 1, F, FALSE, file, Append(passed, chunks[i]))

\* Entry::lock, the closure that tees the chunks of the body to the cache
\* sink: a chunk whose write fails (its index is in F) drops the sink, and
\* every chunk is passed on.  file is what the sink received, passed what
\* went on to the decoder.
RECURSIVE tee(_, _, _, _, _, _)
tee(chunks, i, F, sink, file, passed) ==
    IF i > Len(chunks) THEN [file |-> file, passed |-> passed, sink |-> sink]
    ELSE IF sink /\ i \in F
    THEN tee(chunks, i + 1, F, FALSE, file, Append(passed, chunks[i]))
    ELSE IF sink
    THEN tee(chunks, i + 1, F, TRUE, Append(file, chunks[i]), Append(passed, chunks[i]))
    ELSE tee(chunks, i + 1, F, FALSE, file, Append(passed, chunks[i]))

\* Entry::lock, the scheme dispatch and the network fetch: the body is
\* written to the cache sink and unpacked into `out`.  F holds the indexes
\* of the chunks whose write to the sink fails.
FetchWith(F) ==
    /\ pc = "fetch"
    /\ LET e == CurEntry
           resp == Server(e.url)
           body == Get(resp)
           t == tee(body.entries, 1, F, IsSome(run.sink), <<>>, <<>>)
           bytes == Bytes(body.fmt, t.passed, body.eof /\ Len(t.passed) = Len(body.entries))
           file == Bytes(body.fmt, t.file, body.eof /\ Len(t.file) = Len(body.entries))
           ch == IF IsSome(run.sink) THEN [cache EXCEPT ![Get(run.sink)] = Some(file)]
                 ELSE cache
           st == untar(deps, bytes, Out(Cur), Pinned, e.subdir)
           lgNet == [log EXCEPT !.net = @ \cup {e.url}]
           lg == [lgNet EXCEPT !.touched = @ \cup Touch(st.touched),
                               !.cfail = @ \cup (IF IsSome(run.sink) /\ ~t.sink THEN {e.url}
                                                 ELSE {})]
       IN IF e.url.scheme \notin {"http", "https"}
          THEN Abort(Error(IF e.url.scheme = "file" THEN "file scheme"
                           ELSE "unsupported scheme", Cur), deps, cache, log)
          ELSE IF ~IsSome(resp) THEN Abort(Error("GET", Cur), deps, cache, lgNet)
          ELSE IF ~st.ok THEN Abort(Error("unpack", Cur), st.fs, ch, lg)
          ELSE /\ deps' = st.fs
               /\ cache' = ch
               /\ log' = lg
               /\ run' = [run EXCEPT !.fetched =
                             Some([digest |-> DigestOf(bytes), deps |-> st.deps])]
               /\ pc' = "verify"
               /\ UNCHANGED <<manifest, lockFile, debug, runs, edits, last, peer, call>>

Fetch == FetchWith({})

\* The pin checks with the sha512 pin forgotten
verify_pins_sha256_only(e, dg) ==
    IF IsSome(e.sha256) /\ dg.sha256 # Get(e.sha256) THEN Some("sha256 mismatch")
    ELSE None

\* Entry::lock, the pin checks on the digest of the fetched stream: None, or
\* Some(error) naming the first hash family that does not match
verify_pins(e, dg) ==
    IF IsSome(e.sha256) /\ dg.sha256 # Get(e.sha256) THEN Some("sha256 mismatch")
    ELSE IF IsSome(e.sha512) /\ dg.sha512 # Get(e.sha512) THEN Some("sha512 mismatch")
    ELSE None

\* The step after the fetch with the digest of the stream stored in the
\* lock entry
Verify_stores_stream_digest ==
    /\ pc = "verify"
    /\ LET e == CurEntry
           got == Get(run.fetched)
           gone == remove_dir_all(deps, Out(Cur))
           lgGone == [log EXCEPT !.touched = @ \cup Touch({Out(Cur)})]
           tdeps == Get(lock_deps(deps, [id \in got.deps |-> id]))
           bad == verify_pins(e, got.digest)
       IN IF IsSome(bad) THEN Abort(Error(Get(bad), Cur), gone, cache, lgGone)
          ELSE /\ run' = [run EXCEPT !.res = Some(Result(
                              LockEntry(Some(SourceUrl(e.url, e.subdir)), got.digest,
                                        DOMAIN tdeps), tdeps))]
               /\ pc' = "fold"
               /\ UNCHANGED <<manifest, lockFile, deps, cache, debug, runs, edits, log, last, peer, call>>

\* Entry::lock after the fetch: on a pin mismatch `out` is removed and the
\* entry fails, else lock_deps and LockEntry::from_url give the result
Verify ==
    /\ pc = "verify"
    /\ LET e == CurEntry
           got == Get(run.fetched)
           gone == remove_dir_all(deps, Out(Cur))
           lgGone == [log EXCEPT !.touched = @ \cup Touch({Out(Cur)})]
           tdeps == Get(lock_deps(deps, [id \in got.deps |-> id]))
           bad == verify_pins(e, got.digest)
       IN IF IsSome(bad) THEN Abort(Error(Get(bad), Cur), gone, cache, lgGone)
          ELSE /\ run' = [run EXCEPT !.res = Some(Result(
                              from_url(deps, e.url, Out(Cur), DOMAIN tdeps, e.subdir), tdeps))]
               /\ pc' = "fold"
               /\ UNCHANGED <<manifest, lockFile, deps, cache, debug, runs, edits, log, last, peer, call>>

\* Manifest::lock folds the result of the entry into the lock
Fold ==
    /\ pc = "fold"
    /\ LET r == Get(run.res)
           f == fold(run.acc, Cur, r.entry, r.deps, debug)
       IN IF f.errors # {}
          THEN \E err \in f.errors : Abort(err, deps, cache, log)
          ELSE /\ run' = [run EXCEPT !.acc = f.lock, !.todo = @ \ {Cur}, !.cur = None,
                                     !.sink = None, !.fetched = None, !.res = None]
               /\ pc' = "next"
               /\ UNCHANGED <<manifest, lockFile, deps, cache, debug, runs, edits, log, last, peer, call>>

\* lock that returns the encoded lock whether or not it changed
Finish_always_writes ==
    /\ pc = "next"
    /\ run.todo = {}
    /\ LET lock == run.acc
           ret == Some(EncodeLock(lock))
       IN /\ lockFile' = ret
          /\ last' = [n |-> runs + 1, ok |-> TRUE, err |-> None, manifest |-> manifest,
                      old |-> run.old, lock |-> Some(lock), ret |-> ret, wrote |-> TRUE,
                      rerun |-> run.rerun, deps0 |-> run.deps0, deps |-> deps,
                      lockFile0 |-> run.lockFile0, lockFile |-> ret, log |-> log,
                      mode |-> run.mode, cache0 |-> run.cache0]
    /\ pc' = "idle"
    /\ runs' = runs + 1
    /\ run' = BlankRun
    /\ log' = BlankLog
    /\ UNCHANGED <<manifest, deps, cache, debug, edits, peer, call>>

\* lock compares the new lock with the old one, lock_path writes it
Finish ==
    /\ pc = "next"
    /\ run.todo = {}
    /\ LET lock == run.acc
           ret == IF IsSome(run.old) /\ lock = Get(run.old) THEN None
                  ELSE Some(EncodeLock(lock))
           file == IF IsSome(ret) THEN ret ELSE lockFile
       IN /\ lockFile' = file
          /\ last' = [n |-> runs + 1, ok |-> TRUE, err |-> None, manifest |-> manifest,
                      old |-> run.old, lock |-> Some(lock), ret |-> ret, wrote |-> IsSome(ret),
                      rerun |-> run.rerun, deps0 |-> run.deps0, deps |-> deps,
                      lockFile0 |-> run.lockFile0, lockFile |-> file, log |-> log,
                      mode |-> run.mode, cache0 |-> run.cache0]
    /\ pc' = "idle"
    /\ runs' = runs + 1
    /\ run' = BlankRun
    /\ log' = BlankLog
    /\ UNCHANGED <<manifest, deps, cache, debug, edits, peer, call>>

\* update_path and update up to the call of Manifest::lock: no previous
\* lock, and the cache behind the write-only wrapper
BeginUpdate ==
    /\ pc = "idle"
    /\ runs < MaxRuns
    /\ pc' = "next"
    /\ run' = [BlankRun EXCEPT
                 !.todo = DOMAIN manifest,
                 !.deps0 = deps,
                 !.lockFile0 = lockFile,
                 !.cache0 = cache,
                 !.mode = "update"]
    /\ log' = BlankLog
    /\ UNCHANGED <<manifest, lockFile, deps, cache, debug, runs, edits, last, peer, call>>

\* cache.get or cache.insert ends in an I/O error
CacheLookupFaulty ==
    \E getErr, insErr \in BOOLEAN : (getErr \/ insErr) /\ CacheLookupWith(getErr, insErr)

\* The chunks a fetch may deliver (by index)
ChunkIndexes ==
    UNION {DOMAIN Get(Server(u)).entries : u \in {v \in Urls : IsSome(Server(v))}}

\* the write of some chunk to the cache sink fails
FetchFaulty ==
    /\ IsSome(run.sink)
    /\ \E F \in SUBSET ChunkIndexes : F # {} /\ FetchWith(F)

\* The cache paths another run, sharing the cache directory, works on
PeerPaths == {LocalPath(UrlA)}

\* Local::insert of another run: it gets the write handle when it creates
\* the file, else it goes on without caching
PeerInsert(p) ==
    /\ p \notin peer
    /\ cache_insert(cache, p).sink = Some(p)
    /\ cache' = cache_insert(cache, p).cache
    /\ peer' = peer \cup {p}
    /\ UNCHANGED <<manifest, lockFile, deps, debug, runs, edits, pc, run, log, last, call>>

\* The other run writes the body it fetched to its sink and drops the sink
PeerWrite(p) ==
    /\ p \in peer
    /\ \E u \in Urls : LocalPath(u) = p /\ IsSome(Server(u))
                        /\ cache' = [cache EXCEPT ![p] = Server(u)]
    /\ peer' = peer \ {p}
    /\ UNCHANGED <<manifest, lockFile, deps, debug, runs, edits, pc, run, log, last, call>>

Next ==
    \/ \E m \in Manifests : EditManifest(m)
    \/ Begin
    \/ \E id \in DOMAIN manifest : NextEntry(id)
    \/ RebuildPath
    \/ CacheLookup
    \/ Fetch
    \/ Verify
    \/ Fold
    \/ Finish

Spec == Init /\ [][Next]_vars

\* lock and update runs with cache I/O errors and another run that shares
\* the cache directory
NextShared ==
    \/ Begin
    \/ BeginUpdate
    \/ \E id \in DOMAIN manifest : NextEntry(id)
    \/ RebuildPath
    \/ CacheLookup
    \/ CacheLookupFaulty
    \/ Fetch
    \/ FetchFaulty
    \/ Verify
    \/ Fold
    \/ Finish
    \/ \E p \in PeerPaths : PeerInsert(p)
    \/ \E p \in PeerPaths : PeerWrite(p)

\* The manifests of the runs that share the cache directory
ManifestsShared ==
    {[id \in {"a"} |-> FromUrl(UrlA)],
     [id \in {"a", "b"} |-> IF id = "a" THEN FromUrl(UrlA) ELSE EntryPath("./local-b")],
     [id \in {"d"} |-> EntryD(PinD, PinD)]}

InitShared == Init /\ manifest \in ManifestsShared /\ ~debug

SpecShared == InitShared /\ [][NextShared]_vars

(***************************************************************************)
(* Runs on a manifest whose Url entry names a subdirectory, edited between *)
(* runs from one subdirectory to the other.                                *)
(***************************************************************************)
ManifestsSubdir == {[id \in {"b"} |-> EntryUrl(UrlE, None, None, S)] : S \in {"api", "wit"}}

\* the cache is empty, or holds the archive from an earlier fetch
CachesSubdir ==
    {[p \in CachePaths |-> None],
     [p \in CachePaths |-> IF p = LocalPath(UrlE) THEN Some(ArcE) ELSE None]}

InitSubdir ==
    /\ manifest \in ManifestsSubdir
    /\ lockFile = None
    /\ deps = [d \in DirNames |-> None]
    /\ cache \in CachesSubdir
    /\ debug \in BOOLEAN
    /\ runs = 0
    /\ edits = 0
    /\ pc = "idle"
    /\ run = BlankRun
    /\ log = BlankLog
    /\ last = NoRun
    /\ peer = {}
    /\ call = NoCall

NextSubdir ==
    \/ \E m \in ManifestsSubdir : EditManifest(m)
    \/ Begin
    \/ \E id \in DOMAIN manifest : NextEntry(id)
    \/ CacheLookup
    \/ Fetch
    \/ Verify
    \/ Fold
    \/ Finish

SpecSubdir == InitSubdir /\ [][NextSubdir]_vars

(***************************************************************************)
(* Runs on manifests whose archives hold dependencies nested inside a      *)
(* transitive dependency.                                                  *)
(***************************************************************************)
ManifestsNested ==
    {[id \in {"a"} |-> FromUrl(UrlN)],
     [id \in {"a"} |-> FromUrl(UrlP)],
     [id \in {"a", "b"} |-> IF id = "a" THEN FromUrl(UrlN) ELSE EntryPath("./local-b")]}

\* the cache is empty, or holds the archive from an earlier fetch
CachesNested ==
    {[p \in CachePaths |-> None],
     [p \in CachePaths |-> IF p = LocalPath(UrlN) THEN Some(ArcN) ELSE None]}

InitNested ==
    /\ manifest \in ManifestsNested
    /\ lockFile = None
    /\ deps = [d \in DirNames |-> None]
    /\ cache \in CachesNested
    /\ debug \in BOOLEAN
    /\ runs = 0
    /\ edits = 0
    /\ pc = "idle"
    /\ run = BlankRun
    /\ log = BlankLog
    /\ last = NoRun
    /\ peer = {}
    /\ call = NoCall

NextNested ==
    \/ \E m \in ManifestsNested : EditManifest(m)
    \/ Begin
    \/ \E id \in DOMAIN manifest : NextEntry(id)
    \/ RebuildPath
    \/ CacheLookup
    \/ Fetch
    \/ Verify
    \/ Fold
    \/ Finish

SpecNested == InitNested /\ [][NextNested]_vars

(***************************************************************************)
(* The library functions called on their own: the codec (untar, tar), on   *)
(* a deps directory that holds `a` and `s` from an earlier unpack.         *)
(***************************************************************************)
\* The paths of the archive entries handed to untar
UntarPaths ==
    {<<"wit", "a.wit">>, <<"pfx", "wit", "U.WIT">>, <<"wit", "readme.md">>,
     <<"src", "a.wit">>, <<"wit", "deps", "a.wit">>, <<"pfx", "x", "wit", "a.wit">>,
     <<"wit", "deps", "s", "a.wit">>, <<"wit", "deps", "s", "b.wit">>,
     <<"pfx", "wit", "deps", "b", "a.wit">>,
     <<"pfx", "wit", "deps", "s", "a.wit", "b.wit">>,
     <<"api", "a.wit">>, <<"api", "deps", "s", "a.wit">>}

MaxEntries == 2

\* The archives: up to MaxEntries entries, the content of each entry being
\* its position in the archive
UntarArchives ==
    UNION {{[i \in 1..n |-> TarEntry(ps[i], i)] : ps \in [1..n -> UntarPaths]} :
              n \in 0..MaxEntries}

UntarCalls ==
    [op : {"untar"}, arc : UntarArchives, skip : {{}, {"s"}}, subdir : {"wit", "api"},
     done : {FALSE}, ret : {{}}]

\* The deps directory before the call
CallFs ==
    [d \in DirNames |-> IF d \in {"a", "s"} THEN Some({File("c.wit", 0)}) ELSE None]

\* untar(GzipDecoder(arc), deps/a, skip, subdir)
UntarCall ==
    /\ pc = "call" /\ call.op = "untar" /\ ~call.done
    /\ LET st == untar(deps, Gz(call.arc), "a", call.skip, call.subdir)
       IN /\ deps' = st.fs
          /\ call' = [call EXCEPT !.done = TRUE, !.ret = st.deps]
    /\ UNCHANGED <<manifest, lockFile, cache, debug, runs, edits, pc, run, log, last, peer>>

\* The directories handed to tar: each of these names is absent or holds
\* one of two contents
TarNames == {"a.wit", "U.WIT", "readme.md"}
TarDirs ==
    {{File(n, c[n]) : n \in {m \in TarNames : c[m] # 0}} : c \in [TarNames -> 0..2]}

\* tar of deps/a and of deps/b, then untar of the first archive into deps/c
\* and tar of deps/c
TarCalls ==
    [op : {"tar"}, a : TarDirs, b : TarDirs, stage : {0}, first : {None}, other : {None},
     second : {None}]

TarFs(c) ==
    [d \in DirNames |-> IF d = "a" THEN Some(c.a) ELSE IF d = "b" THEN Some(c.b) ELSE None]

TarCall ==
    /\ pc = "call" /\ call.op = "tar" /\ call.stage = 0
    /\ call' = [call EXCEPT !.stage = 1,
                            !.first = Some(tar(Get(deps["a"]))),
                            !.other = Some(tar(Get(deps["b"])))]
    /\ UNCHANGED <<manifest, lockFile, deps, cache, debug, runs, edits, pc, run, log, last, peer>>

UntarBack ==
    /\ pc = "call" /\ call.op = "tar" /\ call.stage = 1
    /\ deps' = untar(deps, Gz(Get(call.first).entries), "c", {}, "wit").fs
    /\ call' = [call EXCEPT !.stage = 2]
    /\ UNCHANGED <<manifest, lockFile, cache, debug, runs, edits, pc, run, log, last, peer>>

TarAgain ==
    /\ pc = "call" /\ call.op = "tar" /\ call.stage = 2
    /\ call' = [call EXCEPT !.stage = 3, !.second = Some(tar(Get(deps["c"])))]
    /\ UNCHANGED <<manifest, lockFile, deps, cache, debug, runs, edits, pc, run, log, last, peer>>

(***************************************************************************)
(* The decoder of a manifest entry given as a table (manifest.rs): the     *)
(* table is the sequence of its key/value pairs, every value a string.     *)
(***************************************************************************)
\* Url::parse of the strings of the model
ParseUrl(v) == IF v = "https://h/a.tgz" THEN Some(UrlA) ELSE None

\* FromHex::from_hex into the bytes of a digest
FromHex(v) == IF v = "abcd" THEN Some(<<"hex", v>>) ELSE None

Ok(x) == [ok |-> TRUE, val |-> x]
Err(e) == [ok |-> FALSE, err |-> e]

\* The fields seen so far by visit_map
NoFields == [path |-> None, sha256 |-> None, sha512 |-> None, subdir |-> None, url |-> None]

\* The final match of visit_map on the fields seen
visit_map_match(f) ==
    IF IsSome(f.path) /\ f.sha256 = None /\ f.sha512 = None /\ f.subdir = None /\ f.url = None
    THEN Ok(EntryPath(Get(f.path)))
    ELSE IF f.path = None /\ f.subdir = None /\ IsSome(f.url)
    THEN Ok(EntryUrl(Get(f.url), f.sha256, f.sha512, "wit"))
    ELSE IF f.path = None /\ IsSome(f.subdir) /\ IsSome(f.url)
    THEN Ok(EntryUrl(Get(f.url), f.sha256, f.sha512, Get(f.subdir)))
    ELSE IF IsSome(f.path) /\ f.url = None
    THEN Err("not supported in combination with path")
    ELSE Err("either url or path must be specified")

\* A visit_map loop that skips the keys it does not know
RECURSIVE visit_map_loop_lenient(_, _, _)
visit_map_loop_lenient(kvs, i, f) ==
    IF i > Len(kvs) THEN visit_map_match(f)
    ELSE LET k == kvs[i].k
             v == kvs[i].v
         IN IF k \notin {"path", "sha256", "sha512", "subdir", "url"}
            THEN visit_map_loop_lenient(kvs, i + 1, f)
            ELSE IF IsSome(f[k]) THEN Err("duplicate field")
            ELSE LET parsed == IF k = "url" THEN ParseUrl(v)
                               ELSE IF k \in {"sha256", "sha512"} THEN FromHex(v)
                               ELSE Some(v)
                 IN IF parsed = None THEN Err("invalid field value")
                    ELSE visit_map_loop_lenient(kvs, i + 1, [f EXCEPT ![k] = parsed])

\* The loop of visit_map over the entries of the table, from the i-th
RECURSIVE visit_map_loop(_, _, _)
visit_map_loop(kvs, i, f) ==
    IF i > Len(kvs) THEN visit_map_match(f)
    ELSE LET k == kvs[i].k
             v == kvs[i].v
         IN IF k \notin {"path", "sha256", "sha512", "subdir", "url"}
            THEN Err("unknown field")
            ELSE IF IsSome(f[k]) THEN Err("duplicate field")
            ELSE LET parsed == IF k = "url" THEN ParseUrl(v)
                               ELSE IF k \in {"sha256", "sha512"} THEN FromHex(v)
                               ELSE Some(v)
                 IN IF parsed = None THEN Err("invalid field value")
                    ELSE visit_map_loop(kvs, i + 1, [f EXCEPT ![k] = parsed])

visit_map(kvs) == visit_map_loop(kvs, 1, NoFields)

MaxFields == 3

FieldKeys == {"path", "sha256", "sha512", "subdir", "url", "rev"}
FieldValues == {"https://h/a.tgz", "abcd"}

DecodeCalls ==
    [op : {"decode"},
     table : UNION {[1..n -> [k : FieldKeys, v : FieldValues]] : n \in 0..MaxFields},
     done : {FALSE}, ret : {None}]

\* Entry::deserialize of a table
DecodeCall ==
    /\ pc = "call" /\ call.op = "decode" /\ ~call.done
    /\ call' = [call EXCEPT !.done = TRUE, !.ret = Some(visit_map(call.table))]
    /\ UNCHANGED <<manifest, lockFile, deps, cache, debug, runs, edits, pc, run, log, last, peer>>

(***************************************************************************)
(* The encoding of a lock and its decoding (lock.rs, lib.rs)               *)
(***************************************************************************)
\* The entries of the locks: a source of each kind or none, one of two
\* digests, with and without transitive dependencies
LockEntries ==
    {LockEntry(src, dg, ds) :
        src \in {None, Some(SourceUrl(UrlA, "wit")), Some(SourceUrl(UrlA, "api")),
                 Some(SourcePath("./local-b"))},
        dg \in {DigestOf(tar({File("a.wit", 1)})), DigestOf(tar({}))},
        ds \in {{}, {"s"}}}

Locks == UNION {[ids -> LockEntries] : ids \in SUBSET {"a", "s"}}

LockCalls == [op : {"lock"}, lock : Locks, stage : {0}, text : {None}, back : {None}]

\* toml::to_string(&lock)
EncodeCall ==
    /\ pc = "call" /\ call.op = "lock" /\ call.stage = 0
    /\ call' = [call EXCEPT !.stage = 1, !.text = Some(EncodeLock(call.lock))]
    /\ UNCHANGED <<manifest, lockFile, deps, cache, debug, runs, edits, pc, run, log, last, peer>>

\* toml::from_str of the encoded lock
DecodeBack ==
    /\ pc = "call" /\ call.op = "lock" /\ call.stage = 1
    /\ call' = [call EXCEPT !.stage = 2, !.back = Some(DecodeLock(Get(call.text)))]
    /\ UNCHANGED <<manifest, lockFile, deps, cache, debug, runs, edits, pc, run, log, last, peer>>

(***************************************************************************)
(* The path of a URL in the local cache (cache.rs)                         *)
(***************************************************************************)
MaxSegments == 3

\* URLs by the segments Url::path_segments yields: the pieces of the path
\* between its slashes, of which any can be empty
PathUrls ==
    {Url("https", h, segs) :
        h \in {"h", "10.0.0.1"},
        segs \in UNION {[1..n -> {"a", "b.tgz", ""}] : n \in 1..MaxSegments}}

PathCalls == [op : {"path"}, url : PathUrls, got : {None}, ins : {None}]

\* Local::get: File::open(self.path(url))
PathOfGet ==
    /\ pc = "call" /\ call.op = "path" /\ call.got = None
    /\ call' = [call EXCEPT !.got = Some(LocalPath(call.url))]
    /\ UNCHANGED <<manifest, lockFile, deps, cache, debug, runs, edits, pc, run, log, last, peer>>

\* Local::insert: the file opened is self.path(url)
PathOfInsert ==
    /\ pc = "call" /\ call.op = "path" /\ call.ins = None
    /\ call' = [call EXCEPT !.ins = Some(LocalPath(call.url))]
    /\ UNCHANGED <<manifest, lockFile, deps, cache, debug, runs, edits, pc, run, log, last, peer>>

\* URLs with the parts Local::path does not read: the scheme, the port and
\* the query (None when the URL has none)
CacheUrls ==
    [scheme : {"http", "https"}, host : {"h"}, port : {None, Some(8080)},
     path : {<<"a.tgz">>, <<"b.tgz">>}, query : {None, Some("v=2")}]

\* An insert under one URL followed by a get of another
CacheCalls == [op : {"cache"}, ins : CacheUrls, get : CacheUrls, stage : {0}, ret : {None}]

\* Local::insert of call.ins; the body is written to the file and the file
\* is closed
CacheInsertCall ==
    /\ pc = "call" /\ call.op = "cache" /\ call.stage = 0
    /\ LET r == cache_insert(cache, LocalPath(call.ins))
       IN cache' = IF IsSome(r.sink) THEN [r.cache EXCEPT ![Get(r.sink)] = Some(ArcA)]
                   ELSE r.cache
    /\ call' = [call EXCEPT !.stage = 1]
    /\ UNCHANGED <<manifest, lockFile, deps, debug, runs, edits, pc, run, log, last, peer>>

\* Local::get of call.get
CacheGetCall ==
    /\ pc = "call" /\ call.op = "cache" /\ call.stage = 1
    /\ call' = [call EXCEPT !.stage = 2, !.ret = cache_get(cache, LocalPath(call.get), "lock")]
    /\ UNCHANGED <<manifest, lockFile, deps, cache, debug, runs, edits, pc, run, log, last, peer>>

Calls ==
    UntarCalls \cup TarCalls \cup DecodeCalls \cup LockCalls \cup PathCalls \cup CacheCalls

InitCalls ==
    /\ call \in Calls
    /\ manifest = EmptyMap
    /\ lockFile = None
    /\ deps = IF call.op = "tar" THEN TarFs(call) ELSE CallFs
    /\ cache = IF call.op = "cache" THEN [p \in {LocalPath(u) : u \in CacheUrls} |-> None]
               ELSE [p \in CachePaths |-> None]
    /\ debug = FALSE
    /\ runs = 0
    /\ edits = 0
    /\ pc = "call"
    /\ run = BlankRun
    /\ log = BlankLog
    /\ last = NoRun
    /\ peer = {}

NextCalls ==
    \/ UntarCall
    \/ TarCall
    \/ UntarBack
    \/ TarAgain
    \/ DecodeCall
    \/ EncodeCall
    \/ DecodeBack
    \/ PathOfGet
    \/ PathOfInsert
    \/ CacheInsertCall
    \/ CacheGetCall

SpecCalls == InitCalls /\ [][NextCalls]_vars

(***************************************************************************)
(* Manifest::lock called twice on the same inputs: the manifest is a       *)
(* HashMap, so the two calls may take its entries in different orders.     *)
(***************************************************************************)
ManifestsOrders ==
    {[id \in {"a"} |-> FromUrl(UrlA)],
     [id \in {"a", "s"} |-> IF id = "a" THEN FromUrl(UrlA) ELSE EntryPath("./local-s")],
     [id \in {"a", "b"} |-> IF id = "a" THEN FromUrl(UrlA) ELSE FromUrl(UrlB)]}

InitOrders == Init /\ manifest \in ManifestsOrders /\ cache = [p \in CachePaths |-> None]

\* The inputs of the run that just ended (the deps tree, the lock file and
\* the cache as it found them) are put back for a second call of
\* Manifest::lock, and the outcome of the first call is kept
CallAgain ==
    /\ pc = "idle"
    /\ 0 < runs /\ runs < MaxRuns
    /\ call = NoCall
    /\ deps' = last.deps0
    /\ lockFile' = last.lockFile0
    /\ cache' = last.cache0
    /\ call' = [op |-> "again", n |-> last.n, manifest |-> last.manifest, ok |-> last.ok,
                lock |-> last.lock, deps |-> last.deps]
    /\ UNCHANGED <<manifest, debug, runs, edits, pc, run, log, last, peer>>

NextOrders ==
    \/ \E m \in ManifestsOrders : EditManifest(m)
    \/ Begin
    \/ \E id \in DOMAIN manifest : NextEntry(id)
    \/ RebuildPath
    \/ CacheLookup
    \/ Fetch
    \/ Verify
    \/ Fold
    \/ Finish
    \/ CallAgain

SpecOrders == InitOrders /\ [][NextOrders]_vars

(***************************************************************************)
(* Vocabulary of the properties                                            *)
(***************************************************************************)
\* The lock the last run returned (the run succeeded)
RetLock == Get(last.lock)

Cold(fs) == \A d \in DOMAIN fs : fs[d] = None

\* The tree is in sync with a lock: the digest recomputed from the directory
\* of every entry is the digest the entry stores
InSync(fs, lock) == \A k \in DOMAIN lock : digest(fs, Out(k)) = Some(lock[k].digest)

\* The files a stream holds for the transitive dependency `id`
StreamDep(bytes, subdir, id) ==
    {File(e.path[Len(e.path)], e.data) :
        e \in {x \in {bytes.entries[i] : i \in DOMAIN bytes.entries} :
                  \/ Len(x.path) = 4 /\ x.path[1] = subdir /\ x.path[2] = "deps"
                     /\ x.path[3] = id
                  \/ Len(x.path) = 5 /\ x.path[2] = subdir /\ x.path[3] = "deps"
                     /\ x.path[4] = id}}

\* The transitive dependencies the source of a manifest entry carries:
\* identifier -> files (empty when it carries none under that identifier)
Carried(e, id) ==
    IF e.kind = "Path"
    THEN IF IsSome(PathSrc(e.path)) /\ id \in DOMAIN Get(PathSrc(e.path)).deps
         THEN Get(PathSrc(e.path)).deps[id] ELSE {}
    ELSE IF IsSome(Server(e.url)) THEN StreamDep(Get(Server(e.url)), e.subdir, id) ELSE {}

(***************************************************************************)
(* C1.  After every successful run of Manifest::lock every identifier of   *)
(* the manifest is a key of the returned lock and its entry has            *)
(* source = Some(_).                                                       *)
(***************************************************************************)
C1_DirectEntriesHaveSource ==
    last.ok => \A id \in DOMAIN last.manifest :
                  id \in DOMAIN RetLock /\ IsSome(RetLock[id].source)

(***************************************************************************)
(* C2.  After every successful run of Manifest::lock every identifier in   *)
(* the deps set of an entry of the returned lock is a key of that lock,    *)
(* for entries reused through the fast path and for rebuilt ones.          *)
(***************************************************************************)
C2_LockClosedUnderDeps ==
    last.ok => \A k \in DOMAIN RetLock : RetLock[k].deps \subseteq DOMAIN RetLock

\* A successful run that reused one entry with transitive dependencies and
\* rebuilt another one with transitive dependencies
C2_Witness ==
    /\ last.ok
    /\ \E k \in DOMAIN last.manifest \cap last.log.reused : RetLock[k].deps # {}
    /\ \E k \in DOMAIN last.manifest \ last.log.reused : RetLock[k].deps # {}

(***************************************************************************)
(* C3.  From a cold state (no previous lock, empty deps directory) a       *)
(* successful run leaves the tree in sync with the returned lock: for      *)
(* every entry, direct or transitive, the digest recomputed from its       *)
(* directory is the stored digest.                                         *)
(***************************************************************************)
C3_ColdRunInSync ==
    (last.ok /\ ~IsSome(last.old) /\ Cold(last.deps0)) => InSync(last.deps, RetLock)

(***************************************************************************)
(* C4.  Reconciliation is idempotent: a run that follows a successful run  *)
(* with the same manifest, the lock that run returned and the tree it left *)
(* succeeds with an equal lock; lock returns None and nothing is written.  *)
(***************************************************************************)
C4_Idempotent ==
    last.rerun => /\ last.ok
                  /\ last.lock = last.old
                  /\ last.ret = None
                  /\ ~last.wrote
                  /\ last.lockFile = last.lockFile0

(***************************************************************************)
(* C5.  A second run with identical inputs over an in-sync tree takes the  *)
(* fast path for every manifest entry and changes nothing: no directory    *)
(* is removed, recreated or written, the cache is neither read nor         *)
(* written and no HTTP request is issued.                                  *)
(***************************************************************************)
C5_SecondRunTouchesNothing ==
    (last.rerun /\ InSync(last.deps0, Get(last.old))) =>
        /\ last.ok
        /\ last.log.reused = DOMAIN last.manifest
        /\ last.log.touched = {}
        /\ last.deps = last.deps0
        /\ last.log.cget = {} /\ last.log.cins = {}
        /\ last.log.net = {}

BothPinned(e) == e.kind = "Url" /\ IsSome(e.sha256) /\ IsSome(e.sha512)

\* The digest of the unpacked dependency of a Url entry: the digest of the
\* directory that unpacking what the server holds gives
UnpackedDigest(id, e) ==
    Get(digest(untar([d \in DirNames |-> None], Get(Server(e.url)), Out(id), {}, e.subdir).fs,
               Out(id)))

\* The errors of Entry::lock that are about a pin
PinErrors == {"sha256 mismatch", "sha512 mismatch"}

(***************************************************************************)
(* C6 as stated.  For a Url entry with both sha256 and sha512 pinned,      *)
(* reconciliation of the entry succeeds if and only if both pins match     *)
(* the digest of the unpacked dependency.                                  *)
(***************************************************************************)
C6_SucceedsIffPinsMatchUnpacked ==
    /\ (pc = "fold" /\ BothPinned(CurEntry)) =>
          source_matches(Get(digest(deps, Out(Cur))), CurEntry.sha256, CurEntry.sha512)
    /\ (IsSome(last.err) /\ Get(last.err).kind \in PinErrors
          /\ BothPinned(last.manifest[Get(last.err).id])) =>
          ~source_matches(UnpackedDigest(Get(last.err).id, last.manifest[Get(last.err).id]),
                          last.manifest[Get(last.err).id].sha256,
                          last.manifest[Get(last.err).id].sha512)

(***************************************************************************)
(* C6 as amended.  For a Url entry with both pins that is rebuilt: once    *)
(* its archive is fetched and unpacked the entry succeeds if and only if   *)
(* both pins equal the sha256 and sha512 of the fetched (raw) stream, and  *)
(* a complete cached archive is accepted in place of the fetch exactly     *)
(* when both pins equal the hashes of the cached stream.                   *)
(***************************************************************************)
C6_SucceedsIffPinsMatchStream ==
    [][/\ (pc = "verify" /\ BothPinned(CurEntry)) =>
             ((pc' = "fold") <=>
                 /\ Get(CurEntry.sha256) = Get(run.fetched).digest.sha256
                 /\ Get(CurEntry.sha512) = Get(run.fetched).digest.sha512)
       /\ (pc = "cache" /\ BothPinned(CurEntry) /\ IsSome(cache[LocalPath(CurEntry.url)])
             /\ Get(cache[LocalPath(CurEntry.url)]).eof) =>
             ((pc' = "fold") <=>
                 /\ Get(CurEntry.sha256) = DigestOf(Get(cache[LocalPath(CurEntry.url)])).sha256
                 /\ Get(CurEntry.sha512) = DigestOf(Get(cache[LocalPath(CurEntry.url)])).sha512)
      ]_vars

\* An entry with both pins has passed the pin check of its fetched archive,
\* after an earlier run failed on the sha512 pin alone
C6_Witness ==
    /\ pc = "fold" /\ BothPinned(CurEntry) /\ IsSome(run.fetched)
    /\ last.err = Some(Error("sha512 mismatch", Cur))

\* C7, what holds after a run that ended in a pin error
C7_MismatchState ==
    \A id \in DOMAIN last.manifest :
        \A fam \in PinErrors :
            last.err = Some(Error(fam, id)) =>
                LET e == last.manifest[id]
                    dg == DigestOf(Get(Server(e.url)))
                IN /\ fam = "sha256 mismatch" => IsSome(e.sha256) /\ Get(e.sha256) # dg.sha256
                   /\ fam = "sha512 mismatch" => IsSome(e.sha512) /\ Get(e.sha512) # dg.sha512
                   /\ last.deps[Out(id)] = None
                   /\ ~last.ok /\ last.lock = None /\ last.ret = None /\ ~last.wrote
                   /\ last.lockFile = last.lockFile0 /\ lockFile = last.lockFile0

\* C7, the step that checks the pins of a fetched archive
C7_MismatchStep ==
    (/\ pc = "verify"
     /\ \/ IsSome(CurEntry.sha256) /\ Get(CurEntry.sha256) # Get(run.fetched).digest.sha256
        \/ IsSome(CurEntry.sha512) /\ Get(CurEntry.sha512) # Get(run.fetched).digest.sha512)
    => /\ pc' = "idle"
       /\ IsSome(last'.err) /\ Get(last'.err).id = Cur /\ Get(last'.err).kind \in PinErrors

(***************************************************************************)
(* C7.  When the digest of a fetched archive differs from a pinned sha256  *)
(* or sha512, the entry fails with a hash-mismatch error naming the hash   *)
(* family, `out` does not exist after the run, and no lock is returned or  *)
(* written.                                                                *)
(***************************************************************************)
C7_PinMismatchFailsAndRemovesOut == [] C7_MismatchState /\ [][C7_MismatchStep]_vars

\* a run failed on the sha512 pin alone, with a lock file from an earlier run
C7_Witness ==
    /\ \E id \in DOMAIN last.manifest : last.err = Some(Error("sha512 mismatch", id))
    /\ IsSome(lockFile)

\* C8, every removal, recreation or write of a pinned directory is by its own entry
C8_PinnedDirsUntouched ==
    \A w \in log.touched \cup last.log.touched :
        \A id \in (IF w \in log.touched THEN DOMAIN manifest ELSE DOMAIN last.manifest) :
            w.dir = Out(id) => w.by = id

\* C8, the steps of an entry leave the directories of the other pinned ids alone
C8_PinnedDirsKept ==
    IsSome(run.cur) => \A id \in Pinned \ {Cur} : deps'[Out(id)] = deps[Out(id)]

(***************************************************************************)
(* C8.  A transitive dependency whose identifier is a key of the manifest  *)
(* is never materialized by another dependency: no step of another entry   *)
(* (untar, copy_wits, or the clean-up after them) removes, recreates or    *)
(* writes the directory of a pinned identifier.                            *)
(***************************************************************************)
C8_PinnedNeverMaterializedByOthers == [] C8_PinnedDirsUntouched /\ [][C8_PinnedDirsKept]_vars

\* a successful run rebuilt a Url entry and a Path entry that both carry a
\* transitive dependency under a pinned identifier
C8_Witness ==
    /\ last.ok
    /\ \A k \in {"Url", "Path"} :
         \E x \in DOMAIN last.manifest \ last.log.reused :
            /\ last.manifest[x].kind = k
            /\ \E id \in DOMAIN last.manifest \ {x} : Carried(last.manifest[x], id) # {}

(***************************************************************************)
(* C9.  Whenever two direct dependencies each carry a transitive           *)
(* dependency `shared` with different contents and `shared` is not a key   *)
(* of the manifest, reconciliation fails with the conflict error about     *)
(* `shared`, in every processing order and whether the entries are reused  *)
(* or rebuilt.                                                             *)
(***************************************************************************)
C9_SharedConflictFails ==
    \A x, y \in DOMAIN last.manifest :
        \A shared \in Spelled \ DOMAIN last.manifest :
            (/\ last.n > 0
             /\ Carried(last.manifest[x], shared) # {}
             /\ Carried(last.manifest[y], shared) # {}
             /\ Carried(last.manifest[x], shared) # Carried(last.manifest[y], shared))
            => ~last.ok /\ last.err = Some(Error("conflict", shared))

(***************************************************************************)
(* C10.  While the per-entry results are folded into the lock, a           *)
(* transitive result whose identifier is a key of the manifest is          *)
(* silently dropped: it is never inserted into the lock, never keeps the   *)
(* direct entry of that identifier out of it and never raises an error,    *)
(* in whichever order the results arrive.                                  *)
(***************************************************************************)
C10_PinnedTransitiveDropped ==
    /\ \A k \in DOMAIN run.acc \cap DOMAIN manifest : IsSome(run.acc[k].source)
    /\ \A id \in DOMAIN last.manifest :
          /\ last.err # Some(Error("conflict", id))
          /\ last.err # Some(Error("panic", id))

\* C11, what holds after a run that failed
C11_FailedRun ==
    (last.n > 0 /\ ~last.ok) =>
        /\ IsSome(last.err)
        /\ last.lock = None /\ last.ret = None /\ ~last.wrote
        /\ last.lockFile = last.lockFile0
        /\ pc = "idle" => lockFile = last.lockFile0

\* C11, the step in which a run fails
C11_FailingStep ==
    (pc # "idle" /\ pc' = "idle" /\ ~last'.ok) => lockFile' = lockFile

(***************************************************************************)
(* C11.  If the reconciliation of any manifest entry fails, Manifest::lock *)
(* returns an error and no lock: lock and lock_path return the error and   *)
(* the lock file is what it was before the run (or still absent).          *)
(***************************************************************************)
C11_NoLockOnError == [] C11_FailedRun /\ [][C11_FailingStep]_vars

\* a run failed after another entry had been rebuilt, with a lock file
\* from an earlier run in place
C11_Witness ==
    /\ last.n > 0 /\ ~last.ok
    /\ IsSome(last.lockFile0)
    /\ \E w \in last.log.touched : w.by # Get(last.err).id

(***************************************************************************)
(* C12.  lock returns None if and only if a previous lock was supplied and *)
(* the newly computed lock equals it, and otherwise the encoded new lock;  *)
(* lock_path writes the lock file exactly when lock returns Some, and      *)
(* returns true exactly then.                                              *)
(***************************************************************************)
C12_NoneIffLockUnchanged ==
    (last.n > 0 /\ last.ok) =>
        /\ (last.ret = None) <=> (IsSome(last.old) /\ Get(last.old) = RetLock)
        /\ IsSome(last.ret) => Get(last.ret) = EncodeLock(RetLock)
        /\ last.wrote <=> IsSome(last.ret)
        /\ last.wrote => last.lockFile = last.ret
        /\ ~last.wrote => last.lockFile = last.lockFile0

\* a run with a previous lock computed a different lock and wrote it
C12_Witness ==
    /\ last.n > 0 /\ last.ok
    /\ IsSome(last.old) /\ IsSome(last.ret) /\ last.wrote
    /\ DOMAIN Get(last.old) # {}

\* The Url entries of a manifest
UrlIds(m) == {id \in DOMAIN m : m[id].kind = "Url"}

\* C13, while an update runs: no entry is reused, the cache is not read, and
\* a Url entry reaches the pin check and the fold through the network fetch
C13_UpdateFetches ==
    run.mode = "update" =>
        /\ log.reused = {} /\ log.cget = {}
        /\ (pc \in {"verify", "fold"} /\ CurEntry.kind = "Url") =>
               IsSome(run.fetched) /\ CurEntry.url \in log.net

\* C13, after a successful update every Url entry was fetched
C13_UpdateFetchedAll ==
    (last.mode = "update" /\ last.ok) =>
        /\ last.log.reused = {} /\ last.log.cget = {}
        /\ \A id \in UrlIds(last.manifest) : last.manifest[id].url \in last.log.net

(***************************************************************************)
(* C13 as stated.  In the update workflow every Url entry is fetched over  *)
(* the network, never unpacked from the cache and never reused, and after  *)
(* a successful update the cache entry of each fetched URL holds the bytes *)
(* fetched in this run.                                                    *)
(***************************************************************************)
C13_UpdateRefreshesCache ==
    /\ C13_UpdateFetches
    /\ C13_UpdateFetchedAll
    /\ (last.mode = "update" /\ last.ok /\ pc = "idle") =>
          \A id \in UrlIds(last.manifest) :
              cache[LocalPath(last.manifest[id].url)] = Server(last.manifest[id].url)

(***************************************************************************)
(* C13 as amended.  In the update workflow every Url entry is fetched over *)
(* the network, never unpacked from the cache and never reused, and after  *)
(* a successful update the cache entry of a fetched URL holds the bytes    *)
(* fetched in this run when the run's cache.insert created the cache file  *)
(* and every chunk was written to it.                                      *)
(***************************************************************************)
C13_UpdateFillsCreatedCache ==
    /\ C13_UpdateFetches
    /\ C13_UpdateFetchedAll
    /\ (last.mode = "update" /\ last.ok /\ pc = "idle") =>
          \A id \in UrlIds(last.manifest) :
              last.manifest[id].url \in last.log.sunk \ last.log.cfail =>
                  cache[LocalPath(last.manifest[id].url)] = Server(last.manifest[id].url)

\* a successful update over the lock, the tree and the cache of an earlier
\* run fetched a Url entry again and filled the cache file it created
C13_Witness ==
    /\ last.mode = "update" /\ last.ok /\ pc = "idle"
    /\ IsSome(last.lockFile0) /\ ~Cold(last.deps0)
    /\ \E id \in UrlIds(last.manifest) :
          /\ ~IsSome(last.cache0[LocalPath(last.manifest[id].url)])
          /\ last.manifest[id].url \in last.log.sunk \ last.log.cfail
          /\ cache[LocalPath(last.manifest[id].url)] = Server(last.manifest[id].url)

\* C14, no cache file has two write handles
C14_OneWriter == \A p \in peer : run.sink # Some(p)

\* C14, an insert that is refused does not end the run: the entry goes on to
\* the fetch without a sink and the fetch leaves the cache alone
C14_RefusedInsertGoesOn ==
    /\ pc = "cache" =>
          /\ pc' # "idle"
          /\ (pc' = "fetch" /\ IsSome(cache[LocalPath(CurEntry.url)])) =>
                 run'.sink = None /\ cache' = cache
    /\ (pc = "fetch" /\ pc' # "fetch" /\ run.sink = None) => cache' = cache

(***************************************************************************)
(* C14.  When several runs share one cache directory and insert the same   *)
(* URL concurrently, at most one of them obtains a write handle (the first *)
(* to create the file); every other run continues its fetch without        *)
(* caching and does not fail because of the refused insert.                *)
(***************************************************************************)
C14_FirstWriterWins == [] C14_OneWriter /\ [][C14_RefusedInsertGoesOn]_vars

\* a run succeeded although its insert was refused, because another run
\* holds the write handle of the cache file
C14_Witness ==
    /\ last.n > 0 /\ last.ok
    /\ \E id \in UrlIds(last.manifest) :
          /\ last.manifest[id].url \in (last.log.cins \ last.log.sunk) \ last.log.cfail
          /\ last.manifest[id].url \in last.log.net
          /\ LocalPath(last.manifest[id].url) \in peer

\* C15, the cache lookup never ends the run
C15_LookupGoesOn == pc = "cache" => pc' \in {"cache", "fetch", "fold"}

\* C15, the fetch of a served archive gives what a fetch without a cache
\* gives, whatever happens to the sink
C15_FetchAsWithoutCache ==
    (/\ pc = "fetch" /\ pc' # "fetch"
     /\ CurEntry.url.scheme \in {"http", "https"}
     /\ IsSome(Server(CurEntry.url)))
    => LET body == Get(Server(CurEntry.url))
           plain == untar(deps, body, Out(Cur), Pinned, CurEntry.subdir)
       IN /\ deps' = plain.fs
          /\ plain.ok => /\ pc' = "verify"
                         /\ Get(run'.fetched) = [digest |-> DigestOf(body), deps |-> plain.deps]

\* C15, what the sink received is the chunks before the first failed write
C15_SinkGetsPrefix ==
    (pc = "fetch" /\ pc' # "fetch" /\ IsSome(run.sink) /\ IsSome(Server(CurEntry.url))
     /\ CurEntry.url.scheme \in {"http", "https"})
    => LET body == Get(Server(CurEntry.url))
           file == Get(cache'[Get(run.sink)])
           n == Len(file.entries)
       IN /\ n <= Len(body.entries)
          /\ file.entries = SubSeq(body.entries, 1, n)
          /\ LET after == IF pc' = "idle" THEN last'.log ELSE log'
             IN /\ n < Len(body.entries) => CurEntry.url \in after.cfail
                /\ (CurEntry.url \in after.cfail \ log.cfail) => n < Len(body.entries)
          /\ file.eof <=> (n = Len(body.entries) /\ body.eof)

(***************************************************************************)
(* C15.  Cache failures never fail a Url entry: an error from cache.get, a *)
(* refused cache.insert and a failed write of a chunk to the sink each     *)
(* leave the entry without a cache and the fetch goes on; after the first  *)
(* failed write the sink is dropped and no later chunk reaches it; the     *)
(* fetched result and the directories are those of a fetch with no cache.  *)
(***************************************************************************)
C15_CacheFailuresDowngrade ==
    [][C15_LookupGoesOn /\ C15_FetchAsWithoutCache /\ C15_SinkGetsPrefix]_vars

\* a run succeeded although cache.get or cache.insert failed for one entry,
\* or the write of a chunk of its body to the sink failed and left a
\* truncated cache file
C15_Witness ==
    /\ last.n > 0 /\ last.ok /\ pc = "idle"
    /\ \E id \in UrlIds(last.manifest) :
          /\ last.manifest[id].url \in last.log.cfail \cap last.log.sunk
          /\ last.manifest[id].url \in last.log.net
          /\ IsSome(cache[LocalPath(last.manifest[id].url)])
          /\ ~Get(cache[LocalPath(last.manifest[id].url)]).eof
          /\ Len(Get(cache[LocalPath(last.manifest[id].url)]).entries) > 0

\* C16, the step from the cache lookup to the fetch after a cache hit was
\* unpacked: every directory the unpack recreated or wrote is gone
C16_HitLeftBehind ==
    (pc = "cache" /\ pc' = "fetch" /\ log'.touched # log.touched)
    => \A w \in log'.touched \ log.touched : deps'[w.dir] = None

(***************************************************************************)
(* C16.  When the unpack of a cache hit ends in a pin mismatch or in an    *)
(* unpack error, `out` and every transitive sibling the unpack wrote have  *)
(* been removed before the network fetch starts.                           *)
(***************************************************************************)
C16_FailedCacheUnpackRemoved == [][C16_HitLeftBehind]_vars

(***************************************************************************)
(* C17.  A Url entry whose scheme is neither http nor https is never       *)
(* resolved successfully, whatever the previous lock, the directories and  *)
(* the cache hold: a run on a manifest with such an entry fails, with the  *)
(* guidance error for `file` and the unsupported-scheme error otherwise.   *)
(***************************************************************************)
C17_OtherSchemesNeverResolve ==
    \A id \in UrlIds(last.manifest) :
        (last.n > 0 /\ last.manifest[id].url.scheme \notin {"http", "https"})
        => /\ ~last.ok
           /\ Get(last.err).id = id
              => Get(last.err).kind = (IF last.manifest[id].url.scheme = "file"
                                       THEN "file scheme" ELSE "unsupported scheme")

\* C18, the previous lock entry of id is there, `out` has its digest and
\* the manifest source equals its source in kind and key fields
C18_Matches(id) ==
    /\ IsSome(run.old) /\ id \in DOMAIN Get(run.old)
    /\ LET L == Get(run.old)[id]
           me == manifest[id]
       IN /\ IsSome(L.source)
          /\ digest(deps, Out(id)) = Some(L.digest)
          /\ me.kind = Get(L.source).kind
          /\ me.kind = "Url" => (me.url = Get(L.source).url /\ me.subdir = Get(L.source).subdir)
          /\ me.kind = "Path" => me.path = Get(L.source).path

\* C18, every transitive dependency of the previous lock entry has a
\* directory where the reuse arm looks for it
C18_SiblingsThere(id) ==
    \A t \in Get(run.old)[id].deps : IsSome(digest(deps, Sanitize(t)))

\* C18 as stated: reuse exactly when the lock entry, the digest and the
\* source match
C18_ReusedIffMatchesStep ==
    (pc = "next" /\ pc' \in {"fold", "path", "cache"})
    => (pc' = "fold" <=> C18_Matches(Get(run'.cur)))

C18_ReusedIffMatchesAndSiblingsStep ==
    (pc = "next" /\ pc' \in {"fold", "path", "cache"})
    => LET id == Get(run'.cur)
       IN /\ pc' = "fold" <=> (C18_Matches(id) /\ C18_SiblingsThere(id))
          /\ pc' = "fold" => /\ deps' = deps /\ cache' = cache
                             /\ Get(run'.res).entry.digest = Get(run.old)[id].digest
                             /\ Get(run'.res).entry.deps = Get(run.old)[id].deps
          /\ pc' = "path" <=> (~(C18_Matches(id) /\ C18_SiblingsThere(id))
                               /\ manifest[id].kind = "Path")

C19_ReuseStep ==
    (pc = "next" /\ pc' = "fold")
    => LET old == Get(run.old)
       IN \A t \in old[Get(run'.cur)].deps :
             /\ t \in DOMAIN old
             /\ digest(deps, Sanitize(t)) = Some(old[t].digest)

(***************************************************************************)
(* C19.  The fast path digests the sibling directory of each identifier    *)
(* in L.deps and compares it with the previous lock's transitive entry of  *)
(* that identifier: an entry is reused only if every sibling is there and  *)
(* has the digest of the prior transitive entry, else it is rebuilt.       *)
(***************************************************************************)
C19_ReuseComparesSiblings == [][C19_ReuseStep]_vars

\* The archives a rebuild of the current Url entry can have read: what the
\* server answers and what the cache held when the run began or holds now
C20_Streams ==
    LET p == LocalPath(CurEntry.url)
    IN Server(CurEntry.url) \cup run.cache0[p] \cup cache[p]

(***************************************************************************)
(* C20.  Every Url lock entry produced by a rebuild, from the cache or     *)
(* from the network, stores the digest of the unpacked directory `out`     *)
(* (the digest of `out` packed again), never the digest of the raw         *)
(* tarball stream.                                                         *)
(***************************************************************************)
C20_UrlEntryHasUnpackedDigest ==
    (pc = "fold" /\ Cur \notin log.reused /\ CurEntry.kind = "Url")
    => LET entry == Get(run.res).entry
       IN /\ IsSome(deps[Out(Cur)])
          /\ entry.digest = DigestOf(tar(Get(deps[Out(Cur)])))
          /\ \A raw \in C20_Streams : entry.digest # DigestOf(raw)

\* a pinned Url entry was fetched, passed the pin check on the digest of the
\* stream, and its lock entry is about to be folded
C20_Witness ==
    /\ pc = "fold" /\ Cur \notin log.reused /\ CurEntry.kind = "Url"
    /\ CurEntry.url \in log.net
    /\ IsSome(CurEntry.sha256)
    /\ Get(CurEntry.sha256) = DigestOf(Get(Server(CurEntry.url))).sha256

(***************************************************************************)
(* C21.  An identifier that holds ':' is materialized at the path with     *)
(* every ':' replaced by '_' on every code path that derives a directory   *)
(* from an identifier, while the lock keeps the identifier verbatim: after *)
(* a successful run the directory of each such key of the lock is the      *)
(* sanitized one, and no directory has the verbatim name.                  *)
(***************************************************************************)
C21_ColonIdsAtSanitizedPath ==
    (last.n > 0 /\ last.ok)
    => \A id \in DOMAIN RetLock :
          Sanitize(id) # id => (IsSome(last.deps[Sanitize(id)]) /\ last.deps[id] = None)

(***************************************************************************)
(* C22.  Reconciling an empty manifest returns an empty lock and changes   *)
(* nothing: no directory under deps is created, removed or written and    *)
(* the cache is neither read nor written, whatever the previous lock was.  *)
(***************************************************************************)
C22_EmptyManifestChangesNothing ==
    (last.n > 0 /\ last.manifest = EmptyMap)
    => /\ last.ok /\ RetLock = EmptyMap
       /\ last.deps = last.deps0
       /\ last.log = BlankLog
       /\ pc = "idle" => (cache = last.cache0 /\ deps = last.deps0)
       /\ IsSome(last.old) /\ Get(last.old) # EmptyMap => last.ret = Some(EncodeLock(EmptyMap))

\* a run on the empty manifest followed a run that left a lock with
\* entries, directories and a cached archive
C22_Witness ==
    /\ last.n > 0 /\ last.manifest = EmptyMap /\ last.ok /\ pc = "idle"
    /\ IsSome(last.old) /\ DOMAIN Get(last.old) # {}
    /\ ~Cold(last.deps0)
    /\ \E p \in CachePaths : IsSome(cache[p])

\* The WIT files among a set of files
C23_Wits(files) == {f \in files : Lower(Ext(f.name)) = "wit"}

\* C23, the rebuild of a Path entry whose source directory exists
C23_PathRebuildStep ==
    (pc = "path" /\ IsSome(PathSrc(CurEntry.path)))
    => LET src == Get(PathSrc(CurEntry.path))
           sib == DOMAIN src.deps \ DOMAIN manifest
           res == Get(run'.res)
       IN /\ pc' = "fold"
          /\ deps'[Out(Cur)] = Some(C23_Wits(src.wits))
          /\ \A id \in sib : deps'[id] = Some(C23_Wits(src.deps[id]))
          /\ \A d \in DOMAIN deps \ (sib \cup {Out(Cur)}) : deps'[d] = deps[d]
          /\ res.entry.source = Some([kind |-> "Path", path |-> CurEntry.path])
          /\ res.entry.digest = DigestOf(tar(C23_Wits(src.wits)))
          /\ res.entry.deps = sib
          /\ DOMAIN res.deps = sib
          /\ \A id \in sib : /\ res.deps[id].source = None
                             /\ res.deps[id].digest = DigestOf(tar(C23_Wits(src.deps[id])))
                             /\ res.deps[id].deps = {}

(***************************************************************************)
(* C23.  Rebuilding a Path entry whose source holds top-level .wit files   *)
(* and a deps directory copies the top-level .wit files into `out`,        *)
(* recreates one sibling directory per deps/<id> whose id is not in the    *)
(* manifest with its .wit files, leaves every other directory alone, and   *)
(* yields a Path lock entry whose deps set is exactly the set of those     *)
(* siblings, with one transitive entry (source = None) per sibling.        *)
(***************************************************************************)
C23_PathRebuildCopies == [][C23_PathRebuildStep]_vars

\* a Path entry was rebuilt from a source with a file that is not WIT and a
\* transitive dependency, over a sibling directory that held other files
C23_Witness ==
    /\ pc = "fold" /\ CurEntry.kind = "Path" /\ Cur \notin log.reused
    /\ Get(run.res).entry.deps # {}
    /\ \E f \in Get(PathSrc(CurEntry.path)).wits : ~is_wit(f.name)
    /\ \E id \in Get(run.res).entry.deps :
          IsSome(run.deps0[id]) /\ run.deps0[id] # deps[id]

\* C24, the two accepted shapes with the literal `wit`
C24_Top(p) == (Len(p) = 2 /\ p[1] = "wit") \/ (Len(p) = 3 /\ p[2] = "wit")
C24_Dep(p) ==
    \/ Len(p) = 4 /\ p[1] = "wit" /\ p[2] = "deps"
    \/ Len(p) = 5 /\ p[2] = "wit" /\ p[3] = "deps"
C24_IsWitName(p) == Lower(Ext(p[Len(p)])) = "wit"

(***************************************************************************)
(* C24.  untar writes exactly the archive entries of the two accepted      *)
(* shapes: [<any>/]wit/<name>.wit goes to <out>/<name>, and                *)
(* [<any>/]wit/deps/<id>/<name>.wit with id not in the skip set goes to    *)
(* <out>/../<id>/<name>; entries of another depth, another directory, a    *)
(* name that is not .wit (in any letter case) or a skipped id are ignored: *)
(* every file found after the unpack comes from an accepted entry, every   *)
(* accepted top-level entry is in `out`, and a sibling directory changes   *)
(* only when the archive holds an accepted entry for it.                   *)
(***************************************************************************)
C24_UntarWritesAcceptedOnly ==
    (call.op = "untar" /\ call.done /\ call.subdir = "wit")
    => LET es == call.arc
           top == {i \in DOMAIN es : C24_Top(es[i].path) /\ C24_IsWitName(es[i].path)}
           dep(id) == {i \in DOMAIN es :
                          /\ C24_Dep(es[i].path) /\ C24_IsWitName(es[i].path)
                          /\ es[i].path[Len(es[i].path) - 1] = id /\ id \notin call.skip}
           nm(i) == es[i].path[Len(es[i].path)]
       IN /\ IsSome(deps["a"])
          /\ \A f \in Get(deps["a"]) : \E i \in top : f = File(nm(i), es[i].data)
          /\ \A i \in top : (\A j \in top : j > i => nm(j) # nm(i))
                            => File(nm(i), es[i].data) \in Get(deps["a"])
          /\ \A d \in DOMAIN deps \ {"a"} :
                IF dep(d) = {} THEN deps[d] = CallFs[d]
                ELSE /\ IsSome(deps[d])
                     /\ \A f \in Get(deps[d]) : \E i \in dep(d) : f = File(nm(i), es[i].data)
          /\ call.ret = {d \in DOMAIN deps : dep(d) # {}}

(***************************************************************************)
(* C25.  During one unpack the sibling directory of a transitive           *)
(* identifier is removed and recreated only on the first entry of that     *)
(* identifier: after unpacking an archive that holds several .wit files    *)
(* under wit/deps/<id>/, the directory <out>/../<id> contains all of them. *)
(***************************************************************************)
C25_SiblingKeepsAllFiles ==
    (call.op = "untar" /\ call.done /\ call.subdir = "wit")
    => LET es == call.arc
           dep(id) == {i \in DOMAIN es :
                          /\ C24_Dep(es[i].path) /\ C24_IsWitName(es[i].path)
                          /\ es[i].path[Len(es[i].path) - 1] = id /\ id \notin call.skip}
           nm(i) == es[i].path[Len(es[i].path)]
       IN \A id \in call.ret :
             \A i \in dep(id) : (\A j \in dep(id) : j > i => nm(j) # nm(i))
                                => File(nm(i), es[i].data) \in Get(deps[id])

\* C26, a rebuilt Url entry about to be folded: `out` and the siblings hold
\* the files the archive keeps under the subdirectory of the entry, and the
\* lock entry stores that subdirectory
C26_RebuiltFromSubdir ==
    (pc = "fold" /\ CurEntry.kind = "Url" /\ Cur \notin log.reused
     /\ IsSome(Server(CurEntry.url)))
    => LET S == CurEntry.subdir
           es == Get(Server(CurEntry.url)).entries
           nm(i) == es[i].path[Len(es[i].path)]
           isWit(i) == Lower(Ext(nm(i))) = "wit"
           top == {i \in DOMAIN es :
                      /\ \/ Len(es[i].path) = 2 /\ es[i].path[1] = S
                         \/ Len(es[i].path) = 3 /\ es[i].path[2] = S
                      /\ isWit(i)}
           dep(id) == {i \in DOMAIN es :
                          /\ \/ /\ Len(es[i].path) = 4 /\ es[i].path[1] = S
                                /\ es[i].path[2] = "deps" /\ es[i].path[3] = id
                             \/ /\ Len(es[i].path) = 5 /\ es[i].path[2] = S
                                /\ es[i].path[3] = "deps" /\ es[i].path[4] = id
                          /\ isWit(i)}
           sib == {id \in DOMAIN deps : dep(id) # {} /\ id \notin DOMAIN manifest}
           entry == Get(run.res).entry
       IN /\ deps[Out(Cur)] = Some({File(nm(i), es[i].data) : i \in top})
          /\ \A id \in sib : deps[id] = Some({File(nm(i), es[i].data) : i \in dep(id)})
          /\ entry.source = Some([kind |-> "Url", url |-> CurEntry.url, subdir |-> S])
          /\ entry.deps = sib

\* C26, the decision on an entry whose previous lock entry is from the same
\* URL: with the tree as the last run left it, the entry is reused if the
\* subdirectories are equal and rebuilt if they differ
C26_SubdirComparedStep ==
    (/\ pc = "next" /\ pc' \in {"fold", "cache"}
     /\ last.ok /\ last.deps = deps /\ last.lockFile = lockFile
     /\ Get(run'.cur) \in DOMAIN last.manifest
     /\ last.manifest[Get(run'.cur)].kind = "Url"
     /\ last.manifest[Get(run'.cur)].url = manifest[Get(run'.cur)].url)
    => (pc' = "fold" <=>
           last.manifest[Get(run'.cur)].subdir = manifest[Get(run'.cur)].subdir)

C27_PackRoundTrips ==
    (call.op = "tar" /\ call.stage >= 1)
    => LET first == Get(call.first)
           other == Get(call.other)
           wits(fs) == {f \in fs : Lower(Ext(f.name)) = "wit"}
       IN /\ {first.entries[i] : i \in DOMAIN first.entries}
                = {[path |-> <<"wit", f.name>>, data |-> f.data] : f \in wits(call.a)}
          /\ Len(first.entries) = Cardinality(wits(call.a))
          /\ wits(call.a) = wits(call.b) => (first = other /\ DigestOf(first) = DigestOf(other))
          /\ wits(call.a) # wits(call.b) => first # other
          /\ call.stage >= 2 => deps["c"] = Some(wits(call.a))
          /\ call.stage = 3 => Get(call.second) = first

\* a directory with WIT files in both letter cases and another file was
\* packed, unpacked and packed again, next to a directory that differs in
\* the other file only
C27_Witness ==
    /\ call.op = "tar" /\ call.stage = 3
    /\ \E f \in call.a : f.name = "U.WIT"
    /\ \E f \in call.a : f.name = "a.wit"
    /\ \E f \in call.a : f.name = "readme.md"
    /\ call.a # call.b
    /\ Get(call.first) = Get(call.other)

\* C28, the keys of a decoded table, whether none is given twice or
\* unknown, and whether they are a combination the decoder accepts
C28_Keys == {call.table[i].k : i \in DOMAIN call.table}
C28_WellFormed ==
    /\ \A i, j \in DOMAIN call.table : call.table[i].k = call.table[j].k => i = j
    /\ C28_Keys \subseteq {"path", "sha256", "sha512", "subdir", "url"}
C28_Accepted == C28_Keys = {"path"} \/ ("url" \in C28_Keys /\ "path" \notin C28_Keys)
C28_Value(k) == call.table[CHOOSE i \in DOMAIN call.table : call.table[i].k = k].v

(***************************************************************************)
(* C28 as stated.  Decoding a manifest entry given as a table succeeds     *)
(* exactly when `path` is the only field, or `url` is present without      *)
(* `path` (with any of sha256, sha512, subdir), no field is given twice    *)
(* and none is unknown.                                                    *)
(***************************************************************************)
C28_DecodesIffFieldsFit ==
    (call.op = "decode" /\ call.done)
    => (Get(call.ret).ok <=> (C28_WellFormed /\ C28_Accepted))

\* C28, the values of url, sha256 and sha512 parse
C28_ValuesParse ==
    /\ "url" \in C28_Keys => C28_Value("url") = "https://h/a.tgz"
    /\ \A k \in C28_Keys \cap {"sha256", "sha512"} : C28_Value(k) = "abcd"

(***************************************************************************)
(* C28 as amended.  Decoding a manifest entry given as a table succeeds    *)
(* exactly when `path` is the only field, or `url` is present without      *)
(* `path` (with any of sha256, sha512, subdir) and the values of url,      *)
(* sha256 and sha512 parse as a URL and as hex digests; subdir defaults    *)
(* to `wit`.  `path` with any other field, neither `path` nor `url`, a     *)
(* field given twice or an unknown field is a decode error.                *)
(***************************************************************************)
C28_DecodesIffFieldsFitAndParse ==
    (call.op = "decode" /\ call.done)
    => LET r == Get(call.ret)
       IN /\ r.ok <=> (C28_WellFormed /\ C28_Accepted /\ C28_ValuesParse)
          /\ (r.ok /\ "path" \in C28_Keys) => r.val = [kind |-> "Path", path |-> C28_Value("path")]
          /\ (r.ok /\ "url" \in C28_Keys) =>
                /\ r.val.kind = "Url"
                /\ r.val.url = UrlA
                /\ r.val.subdir = (IF "subdir" \in C28_Keys THEN C28_Value("subdir") ELSE "wit")
                /\ \A k \in {"sha256", "sha512"} :
                      r.val[k] = (IF k \in C28_Keys THEN {<<"hex", C28_Value(k)>>} ELSE {})

\* a table with url, a pin and subdir was decoded
C28_Witness ==
    /\ call.op = "decode" /\ call.done /\ Get(call.ret).ok
    /\ C28_Keys = {"url", "sha256", "subdir"}

(***************************************************************************)
(* C29.  Lock encoding round-trips: decoding the encoding of a lock gives  *)
(* an equal lock; a Url entry with subdir `wit` is encoded without a       *)
(* subdir field and decodes back to subdir `wit`; a transitive entry is    *)
(* encoded with its digest and (if not empty) its deps only, and decodes   *)
(* back to source = None.                                                  *)
(***************************************************************************)
C29_LockRoundTrips ==
    (call.op = "lock" /\ call.stage >= 1)
    => LET text == Get(call.text)
       IN /\ DOMAIN text = DOMAIN call.lock
          /\ \A id \in DOMAIN call.lock :
                LET e == call.lock[id]
                    t == text[id]
                IN /\ t.sha256 = e.digest.sha256 /\ t.sha512 = e.digest.sha512
                   /\ IsSome(t.deps) <=> e.deps # {}
                   /\ IsSome(t.deps) => Get(t.deps) = e.deps
                   /\ e.source = None => (t.url = None /\ t.path = None /\ t.subdir = None)
                   /\ (IsSome(e.source) /\ Get(e.source).kind = "Url") =>
                         /\ t.url = {Get(e.source).url} /\ t.path = None
                         /\ IsSome(t.subdir) <=> Get(e.source).subdir # "wit"
                         /\ IsSome(t.subdir) => Get(t.subdir) = Get(e.source).subdir
                   /\ (IsSome(e.source) /\ Get(e.source).kind = "Path") =>
                         (t.path = {Get(e.source).path} /\ t.url = None /\ t.subdir = None)
          /\ call.stage = 2 => Get(call.back) = call.lock

\* a lock with a Url entry of subdir `wit` that has a transitive
\* dependency, and the transitive entry, was encoded and decoded
C29_Witness ==
    /\ call.op = "lock" /\ call.stage = 2
    /\ DOMAIN call.lock = {"a", "s"}
    /\ call.lock["a"].source = Some(SourceUrl(UrlA, "wit")) /\ call.lock["a"].deps = {"s"}
    /\ call.lock["s"].source = None /\ call.lock["s"].deps = {}

(***************************************************************************)
(* C30.  The local cache maps a URL to the path made of the cache root,    *)
(* then the host of the URL, then one component per `/`-separated segment  *)
(* of the URL path, in order; get and insert of the same URL address the   *)
(* same file.                                                              *)
(***************************************************************************)
C30_OneComponentPerSegment ==
    call.op = "path"
    => /\ \A p \in call.got \cup call.ins :
             /\ Len(p) = 1 + Len(call.url.path)
             /\ p[1] = call.url.host
             /\ \A i \in DOMAIN call.url.path : p[i + 1] = call.url.path[i]
       /\ (IsSome(call.got) /\ IsSome(call.ins)) => call.got = call.ins

\* Entry::lock of some entry has started and its result is not yet folded
InProgress == pc \in {"path", "cache", "fetch", "verify", "fold"}

(***************************************************************************)
(* C31.  Per-entry reconciliation is concurrent: the work of different     *)
(* manifest entries runs as independent tasks whose steps may interleave,  *)
(* so the reconciliation of one entry can start before the reconciliation  *)
(* of another entry has finished.                                          *)
(***************************************************************************)
C31_EntriesInterleave ==
    (InProgress /\ run.todo \ {Cur} # {})
    => ENABLED (\E id \in run.todo \ {Cur} : NextEntry(id))

\* The current entry is a Url entry that pins a digest
C32_PinnedUrl ==
    /\ CurEntry.kind = "Url"
    /\ IsSome(CurEntry.sha256) \/ IsSome(CurEntry.sha512)

\* The steps of one Url entry follow each other in the order of the claim
C32_StepOrder ==
    /\ pc = "cache" => pc' \in {"cache", "fetch", "fold", "idle"}
    /\ pc = "fetch" => pc' \in {"fetch", "verify", "idle"}
    /\ pc = "verify" => pc' \in {"verify", "fold", "idle"}

\* While the pins of the fetched stream are not yet verified, `out` holds no
\* file
C32_OutEmptyUntilVerified ==
    (pc = "verify" /\ C32_PinnedUrl)
    => (~IsSome(deps[Out(Cur)]) \/ Get(deps[Out(Cur)]) = {})

(***************************************************************************)
(* C32.  Within one Url entry the steps occur in the strict order: cache   *)
(* lookup; then the unpack from the cache or the network fetch with the    *)
(* cache insert alongside the unpack; then the verification of the digest  *)
(* against the pins; then the materialization of `out`, so that no file of *)
(* the dependency is present in `out` before its pins have been verified.  *)
(***************************************************************************)
C32_VerifiedBeforeMaterialized == [] C32_OutEmptyUntilVerified /\ [][C32_StepOrder]_vars

\* The run that ends in this step succeeds, and the run before it failed on
\* the same manifest
C33_RecoveringStep ==
    /\ pc # "idle" /\ pc' = "idle" /\ last'.ok
    /\ last.n > 0 /\ ~last.ok /\ last.manifest = manifest

C33_RecoveredStep ==
    C33_RecoveringStep
    => /\ InSync(deps', Get(last'.lock))
       /\ \A id \in DOMAIN manifest :
             id \in DOMAIN Get(last'.lock) /\ IsSome(Get(last'.lock)[id].source)

(***************************************************************************)
(* C33.  A failed run can always be recovered from: after a run that       *)
(* failed at any step, a later run on the same manifest in which no step   *)
(* fails succeeds, and afterwards the digest of every lock entry is the    *)
(* digest recomputed from its directory and every identifier of the        *)
(* manifest has a direct entry.                                            *)
(***************************************************************************)
C33_FailedRunRecovered == [][C33_RecoveredStep]_vars

\* The second of two calls of Manifest::lock on the same inputs has ended
C34_SecondCallEnded ==
    /\ call.op = "again" /\ pc = "idle"
    /\ last.n = call.n + 1 /\ last.manifest = call.manifest

(***************************************************************************)
(* C34.  The outcome of Manifest::lock is independent of the order in      *)
(* which the entries of the manifest are processed and folded: for the     *)
(* same manifest, previous lock, deps tree, cache and server contents, any *)
(* two orders either both fail, or both succeed with equal locks and equal *)
(* final deps trees.                                                       *)
(***************************************************************************)
C34_OrderIndependent ==
    C34_SecondCallEnded
    => /\ last.ok = call.ok
       /\ last.ok => (last.lock = call.lock /\ last.deps = call.deps)

\* C35, the entry taken in this step is a Url entry whose previous lock
\* entry has its url and subdir and the digest of `out`
C35_UrlMatches(id) == manifest[id].kind = "Url" /\ C18_Matches(id)

\* C35, a reused entry never ends in a pin-mismatch error
C35_NoPinErrorStep ==
    (pc = "fold" /\ Cur \in log.reused /\ pc' = "idle" /\ ~last'.ok)
    => Get(last'.err).kind \notin PinErrors

C35_MatchAcceptedStep ==
    /\ (pc = "next" /\ pc' \in {"fold", "path", "cache"} /\ C35_UrlMatches(Get(run'.cur)))
       => pc' = "fold"
    /\ C35_NoPinErrorStep

(***************************************************************************)
(* C35.  On the reuse of a Url entry the sha256 and sha512 pins of the     *)
(* manifest are not consulted: if the previous lock entry has the same     *)
(* url and subdir and the digest of `out` equals the locked digest,        *)
(* the entry is accepted whatever pins the manifest now holds, and no      *)
(* pin-mismatch error can be raised.                                       *)
(***************************************************************************)
C35_MatchAcceptedWhateverPins == [][C35_MatchAcceptedStep]_vars

\* C36, the bytes `new` are the bytes `old` with chunks appended by the
\* holder of the write handle; a complete file stays as it is
C36_Extends(old, new) ==
    /\ new.fmt = old.fmt
    /\ Len(old.entries) <= Len(new.entries)
    /\ SubSeq(new.entries, 1, Len(old.entries)) = old.entries
    /\ old.eof => new = old

\* C36, a write handle for the file is open: that of the run or of another
\* run sharing the cache directory
C36_HasWriter(p) == run.sink = Some(p) \/ p \in peer

C36_CacheEntryKeptStep ==
    \A p \in DOMAIN cache :
        IsSome(cache[p])
        => /\ IsSome(cache'[p])
           /\ C36_Extends(Get(cache[p]), Get(cache'[p]))
           /\ ~C36_HasWriter(p) => cache'[p] = cache[p]

(***************************************************************************)
(* C36.  A cache entry is never modified once it exists: no sequence of    *)
(* lock and update runs (a run that finds a cache hash mismatch or a cache *)
(* unpack error for the URL and fetches it again included) overwrites,     *)
(* truncates or removes the cached bytes of a URL, because insert only     *)
(* ever creates a new file.                                                *)
(***************************************************************************)
C36_CacheEntryNeverModified == [][C36_CacheEntryKeptStep]_vars

\* a run found the cached bytes of its URL unusable, fetched the URL again
\* without a write handle, and the cached bytes are as they were
C36_Witness ==
    /\ pc = "verify"
    /\ CurEntry.url \in log.net
    /\ CurEntry.url \in log.cget
    /\ run.sink = None
    /\ IsSome(run.cache0[LocalPath(CurEntry.url)])
    /\ cache[LocalPath(CurEntry.url)] = run.cache0[LocalPath(CurEntry.url)]

\* C37, the run ends in this step because the stream fetched for the
\* current Url entry failed a pin check or its unpack failed
C37_FetchRejectedStep ==
    /\ pc \in {"fetch", "verify"} /\ pc' = "idle" /\ ~last'.ok
    /\ Get(last'.err).kind \in PinErrors \cup {"unpack"}

C37_NothingCachedStep ==
    C37_FetchRejectedStep
    => LET p == LocalPath(CurEntry.url)
       IN ~IsSome(run.cache0[p]) => ~IsSome(cache'[p])

(***************************************************************************)
(* C37.  Every cache entry created by a network fetch holds bytes that     *)
(* satisfied the pins of the manifest entry that fetched them: when the    *)
(* fetched stream fails the sha256 or sha512 pin check (or the unpack      *)
(* fails midway), no cache entry for that URL is left behind by the run.   *)
(***************************************************************************)
C37_RejectedFetchLeavesNoCacheEntry == [][C37_NothingCachedStep]_vars

\* C38, the directory the reuse arm digests for a transitive identifier is
\* the directory untar and copy_wits materialized it in
C38_SamePlace ==
    last.ok => \A k \in DOMAIN RetLock : \A t \in RetLock[k].deps : Sanitize(t) = Out(t)

\* C38, in a run on unchanged inputs an entry with transitive dependencies
\* that the run before rebuilt is reused
C38_RebuiltIsReusedStep ==
    (/\ pc = "next" /\ pc' \in {"fold", "path", "cache"}
     /\ run.rerun
     /\ Get(run'.cur) \notin last.log.reused
     /\ Get(run'.cur) \in DOMAIN RetLock
     /\ RetLock[Get(run'.cur)].deps # {})
    => pc' = "fold"

(***************************************************************************)
(* C38.  Rebuild and fast path agree on where a transitive dependency      *)
(* lives: for every transitive identifier, the sibling directory that the  *)
(* fast path digests on the next run is the directory into which untar or  *)
(* copy_wits materialized that identifier, so a dependency with transitive *)
(* dependencies that was just rebuilt is reusable on the next run with     *)
(* unchanged inputs.                                                       *)
(***************************************************************************)
C38_RebuildAndReuseAgree == [] C38_SamePlace /\ [][C38_RebuiltIsReusedStep]_vars

(***************************************************************************)
(* C39.  Two URLs are served by distinct cache entries unless they are the *)
(* same URL: cache.get(u) returns bytes only if they were inserted under u *)
(* itself, also when another URL with the same host and path but another   *)
(* scheme, port, query or fragment has been inserted.                      *)
(***************************************************************************)
C39_GetReturnsOwnBytesOnly ==
    (call.op = "cache" /\ call.stage = 2 /\ IsSome(call.ret)) => call.get = call.ins

\* C40, the identifiers an archive holds in a `deps` layer below a
\* transitive dependency
C40_NestedIn(bytes) ==
    {e.path[Len(e.path) - 1] :
        e \in {x \in {bytes.entries[i] : i \in DOMAIN bytes.entries} :
                  /\ Len(x.path) >= 6
                  /\ x.path[Len(x.path) - 2] = "deps"
                  /\ x.path[Len(x.path) - 4] = "deps"}}

\* C40, the identifiers nested in the archives of the manifest
C40_Nested ==
    UNION {C40_NestedIn(Get(Server(manifest[id].url))) :
              id \in {k \in DOMAIN manifest :
                         manifest[k].kind = "Url" /\ IsSome(Server(manifest[k].url))}}

\* C40, the entries of a lock without a source have no deps
C40_Flat(lock) == \A k \in DOMAIN lock : lock[k].source = None => lock[k].deps = {}

(***************************************************************************)
(* C40.  Every transitive lock entry produced by the reconciler has        *)
(* source = None and an empty deps set, in the fast path as well as after  *)
(* a rebuild: dependencies nested inside a transitive dependency (a        *)
(* `deps/` layer below `deps/<id>/`) are never discovered, materialized or *)
(* recorded.                                                               *)
(***************************************************************************)
C40_TransitiveEntriesFlat ==
    /\ pc = "fold"
       => \A t \in DOMAIN Get(run.res).deps :
             Get(run.res).deps[t].source = None /\ Get(run.res).deps[t].deps = {}
    /\ C40_Flat(run.acc)
    /\ last.ok => C40_Flat(RetLock)
    /\ \A t \in C40_Nested :
          /\ deps[t] = None
          /\ t \notin DOMAIN run.acc
          /\ pc = "fold" => t \notin DOMAIN Get(run.res).deps
          /\ IsSome(lockFile) => t \notin DOMAIN Get(lockFile)

\* an entry whose archive nests a dependency inside its transitive
\* dependency is reused; its transitive dependency is recorded, flat
C40_Witness ==
    /\ pc = "fold" /\ Cur \in log.reused
    /\ C40_Nested # {}
    /\ DOMAIN Get(run.res).deps # {}

=============================================================================
